---------------------------- MODULE Spec2Model ----------------------------
(***************************************************************************)
(* A model of the C-- compiler: lexer, recursive-descent parser, semantic  *)
(* analyzer, IR generator, IR optimizer and the driver that orders the     *)
(* phases.  C++ strings are sequences of one-character strings, so that    *)
(* the character tests of the code (isdigit, isalpha, first character of   *)
(* an operand) are computed as the code computes them.                     *)
(***************************************************************************)
EXTENDS Integers, Sequences, FiniteSets, TLC

VARIABLES
    \* CompilerDriver::compile_from_source
    source,          \* the source_code argument
    options,         \* CompilerOptions: opt_level, output_format
    pc,              \* position inside compile_from_source
    tokens,          \* the token vector handed to the Parser
    ast,             \* CompilerDriver::ast (Null before syntax analysis)
    syntax_errors,   \* diagnostics Parser::error_recovery wrote
    error_messages,  \* CompilerDriver::error_messages
    ir_code,         \* IRGenerator::instructions after the last generate
    phases,          \* the run_* phases started so far, in order
    result,          \* what compile_from_source returned ("none" while running)
    \* SemanticAnalyzer
    program,         \* the Program handed to analyze
    analyzer,        \* global scope, error collector
    analyzed,        \* number of analyze calls made
    \* IROptimizer
    ir_in,           \* the list handed to the first optimize
    ir_out,          \* what the last optimize returned
    ir_prev,         \* the list the last optimize was handed
    opt_runs,        \* number of optimize calls made
    \* IRGenerator
    generator,       \* the IRGenerator object: instructions and counters
    generated,       \* every generate call made: the Program and what it returned
    \* ControlFlowGraph
    cfg,             \* blocks, label_to_block, entry_block, exit_block
    \* Parser
    current,         \* Parser::current, the token cursor
    \* AssemblyGenerator
    var_offsets,     \* the static map of get_memory_location
    next_offset,     \* the static counter of get_memory_location
    asm_uses,        \* per generate_from_ir run, the get_memory_location calls
    \* IROptimizer passes
    pass,            \* the pass that produced ir_out
    \* execution of IR
    valuation,       \* the values the variables hold when execution starts
    \* ControlFlowGraph::get_topological_order
    topo_order,      \* the vector the last call returned
    \* RegisterAllocator
    allocator,       \* the RegisterAllocator object
    emitted,         \* per instruction translated, its opcode and registers
    \* SymbolTable
    symtab,          \* the chain of scopes from the global to the current one
    \* the last call made on the allocator, the symbol table or the analyzer
    last_call        \* its name, argument and result, and the object before it

vars == <<source, options, pc, tokens, ast, syntax_errors, error_messages,
          ir_code, phases, result, program, analyzer, analyzed,
          ir_in, ir_out, ir_prev, opt_runs, generator, generated, cfg,
          current, var_offsets, next_offset, asm_uses, pass, valuation,
          topo_order, allocator, emitted, symtab, last_call>>

driverVars == <<source, options, pc, tokens, ast, syntax_errors,
                error_messages, ir_code, phases, result>>
semVars    == <<program, analyzer, analyzed>>
optVars    == <<ir_in, ir_out, ir_prev, opt_runs>>
genVars    == <<generator, generated>>
asmVars    == <<var_offsets, next_offset, asm_uses>>
moreVars   == <<topo_order, allocator, emitted, symtab, last_call>>
auxVars    == <<genVars, cfg, current, asmVars, pass, valuation, moreVars>>

-----------------------------------------------------------------------------
(* Bounds of the model *)

\* sources compiled by the driver are made of at most this many snippets
MaxSnippets == 2
\* sources parsed and analyzed are made of at most this many snippets
MaxDecls == 2
\* IR lists handed to the optimizer have at most this many instructions
MaxIR == 3
\* optimize is applied to its own output up to this many times in all
MaxOptRuns == 2
\* generate is called up to this many times on one generator
MaxGenRuns == 3
\* sources handed to the lexer alone are made of at most this many pieces
MaxPieces == 3
\* sources handed to the parser alone are made of at most this many pieces
MaxParsePieces == 3
\* compilations made one after the other in one process
MaxAsmRuns == 2
\* an execution of IR is followed for at most this many instructions
MaxSteps == 40
\* the memory cells hold a value from 0 to this one when an execution starts
MaxValue == 2

-----------------------------------------------------------------------------
(* Characters and strings *)

Digits == {"0", "1", "2", "3", "4", "5", "6", "7", "8", "9"}

Letters == {"a", "b", "c", "d", "e", "f", "g", "h", "i", "j", "k", "l", "m",
            "n", "o", "p", "q", "r", "s", "t", "u", "v", "w", "x", "y", "z",
            "A", "B", "C", "D", "E", "F", "G", "H", "I", "J", "K", "L", "M",
            "N", "O", "P", "Q", "R", "S", "T", "U", "V", "W", "X", "Y", "Z"}

\* std::isspace in the "C" locale
Spaces == {" ", "\t", "\n", "\r", "\f"}

\* '\0', what peekChar returns past the end
NUL == "NUL"

isdigit(c) == c \in Digits
isalpha(c) == c \in Letters
isalnum(c) == isalpha(c) \/ isdigit(c)
isspace(c) == c \in Spaces

DigitValue(c) ==
    CASE c = "0" -> 0 [] c = "1" -> 1 [] c = "2" -> 2 [] c = "3" -> 3
      [] c = "4" -> 4 [] c = "5" -> 5 [] c = "6" -> 6 [] c = "7" -> 7
      [] c = "8" -> 8 [] c = "9" -> 9

DigitChar(d) ==
    CASE d = 0 -> "0" [] d = 1 -> "1" [] d = 2 -> "2" [] d = 3 -> "3"
      [] d = 4 -> "4" [] d = 5 -> "5" [] d = 6 -> "6" [] d = 7 -> "7"
      [] d = 8 -> "8" [] d = 9 -> "9"

INT_MAX == 2147483647
INT_MIN == (0 - INT_MAX) - 1

\* the digits of s from position i on, accumulated as a value <= 0 so that
\* every int is reached without leaving the range; 1 when the digits denote
\* a magnitude beyond -INT_MIN
RECURSIVE DigitsValue(_, _, _)
DigitsValue(s, i, acc) ==
    IF i > Len(s) \/ ~isdigit(s[i]) THEN acc
    ELSE LET d == DigitValue(s[i])
         IN  IF acc < (INT_MIN + d) \div 10 + (IF (INT_MIN + d) % 10 = 0 THEN 0 ELSE 1)
             THEN 1
             ELSE DigitsValue(s, i + 1, acc * 10 - d)

RECURSIVE SkipSpaces(_, _)
SkipSpaces(s, i) ==
    IF i <= Len(s) /\ isspace(s[i]) THEN SkipSpaces(s, i + 1) ELSE i

\* std::stoi: leading white space, an optional sign, then digits up to the
\* first character that is none.  ok is FALSE where stoi throws
\* (std::invalid_argument: no digit; std::out_of_range: not an int).
stoi(s) ==
    LET i == SkipSpaces(s, 1)
        neg == i <= Len(s) /\ s[i] = "-"
        j == IF i <= Len(s) /\ s[i] \in {"-", "+"} THEN i + 1 ELSE i
        m == DigitsValue(s, j, 0)
    IN  IF j > Len(s) \/ ~isdigit(s[j]) THEN [ok |-> FALSE, value |-> 0]
        ELSE IF m = 1 \/ (~neg /\ m = INT_MIN) THEN [ok |-> FALSE, value |-> 0]
        ELSE [ok |-> TRUE, value |-> IF neg THEN m ELSE 0 - m]

RECURSIVE NatToString(_)
NatToString(n) ==
    IF n < 10 THEN <<DigitChar(n)>>
    ELSE Append(NatToString(n \div 10), DigitChar(n % 10))

\* std::to_string(int)
to_string(n) ==
    IF n = INT_MIN THEN <<"-", "2", "1", "4", "7", "4", "8", "3", "6", "4", "8">>
    ELSE IF n < 0 THEN <<"-">> \o NatToString(0 - n)
    ELSE NatToString(n)

Null == [kind |-> "null"]

\* The(S): the element of the one-element set S.  The({e(r) : r \in {v}})
\* is e with r bound to the value of v, computed once.
The(S) == CHOOSE x \in S : TRUE


-----------------------------------------------------------------------------
(* Lexer (lexer.cpp).  The scanner state is [pos, line, column]; pos counts *)
(* from 0 as in the code.                                                   *)

Token(type, value, line, column) ==
    [type |-> type, value |-> value, line |-> line, column |-> column]

LexerInit == [pos |-> 0, line |-> 1, column |-> 1]

peekChar(src, ls) == IF ls.pos >= Len(src) THEN NUL ELSE src[ls.pos + 1]

\* the character after the current one, read only under pos + 1 < size
nextChar(src, ls) == src[ls.pos + 2]

\* Lexer::advance
lexAdvance(src, ls) ==
    IF peekChar(src, ls) = "\n"
    THEN [pos |-> ls.pos + 1, line |-> ls.line + 1, column |-> 1]
    ELSE [pos |-> ls.pos + 1, line |-> ls.line, column |-> ls.column + 1]

RECURSIVE skipWhitespace(_, _)
skipWhitespace(src, ls) ==
    IF isspace(peekChar(src, ls)) THEN skipWhitespace(src, lexAdvance(src, ls))
    ELSE ls

\* while (peekChar() != '\n' && peekChar() != '\0') advance();
RECURSIVE skipToLineEnd(_, _)
skipToLineEnd(src, ls) ==
    IF peekChar(src, ls) # "\n" /\ peekChar(src, ls) # NUL
    THEN skipToLineEnd(src, lexAdvance(src, ls))
    ELSE ls

\* the loop of the block comment: while (pos_ + 1 < source_.size())
RECURSIVE skipBlockComment(_, _)
skipBlockComment(src, ls) ==
    IF ls.pos + 1 < Len(src)
    THEN IF peekChar(src, ls) = "*" /\ nextChar(src, ls) = "/"
         THEN lexAdvance(src, lexAdvance(src, ls))
         ELSE skipBlockComment(src, lexAdvance(src, ls))
    ELSE ls

\* handleComments skipping one comment only, with no call of itself
handleCommentsOnce(src, ls) ==
    IF peekChar(src, ls) = "/" /\ ls.pos + 1 < Len(src) /\ nextChar(src, ls) = "/"
    THEN LET a == skipToLineEnd(src, lexAdvance(src, lexAdvance(src, ls)))
             b == IF peekChar(src, a) = "\n" THEN lexAdvance(src, a) ELSE a
         IN  skipWhitespace(src, b)
    ELSE IF peekChar(src, ls) = "/" /\ ls.pos + 1 < Len(src) /\ nextChar(src, ls) = "*"
    THEN skipWhitespace(src, skipBlockComment(src, lexAdvance(src, lexAdvance(src, ls))))
    ELSE ls

RECURSIVE handleComments(_, _)
handleComments(src, ls) ==
    IF peekChar(src, ls) = "/" /\ ls.pos + 1 < Len(src) /\ nextChar(src, ls) = "/"
    THEN LET a == skipToLineEnd(src, lexAdvance(src, lexAdvance(src, ls)))
             b == IF peekChar(src, a) = "\n" THEN lexAdvance(src, a) ELSE a
         IN  handleComments(src, skipWhitespace(src, b))
    ELSE IF peekChar(src, ls) = "/" /\ ls.pos + 1 < Len(src) /\ nextChar(src, ls) = "*"
    THEN LET a == skipBlockComment(src, lexAdvance(src, lexAdvance(src, ls)))
         IN  handleComments(src, skipWhitespace(src, a))
    ELSE ls

\* the loop of readNumber: [value, ls]
RECURSIVE readDigits(_, _, _)
readDigits(src, ls, value) ==
    IF isdigit(peekChar(src, ls))
    THEN readDigits(src, lexAdvance(src, ls), Append(value, peekChar(src, ls)))
    ELSE [value |-> value, ls |-> ls]

readNumber(src, ls) ==
    LET r == readDigits(src, ls, <<>>)
    IN  [tok |-> Token("Number", r.value, r.ls.line, ls.column), ls |-> r.ls]

\* the loop of readIdentifier
RECURSIVE readWord(_, _, _)
readWord(src, ls, value) ==
    IF isalnum(peekChar(src, ls)) \/ peekChar(src, ls) = "_"
    THEN readWord(src, lexAdvance(src, ls), Append(value, peekChar(src, ls)))
    ELSE [value |-> value, ls |-> ls]

W_int    == <<"i", "n", "t">>
W_void   == <<"v", "o", "i", "d">>
W_if     == <<"i", "f">>
W_else   == <<"e", "l", "s", "e">>
W_while  == <<"w", "h", "i", "l", "e">>
W_return == <<"r", "e", "t", "u", "r", "n">>
W_input  == <<"i", "n", "p", "u", "t">>
W_output == <<"o", "u", "t", "p", "u", "t">>
W_main   == <<"m", "a", "i", "n">>

\* the token type readIdentifier gives a word
WordType(value) ==
    CASE value = W_int    -> "Int"
      [] value = W_void   -> "Void"
      [] value = W_if     -> "If"
      [] value = W_else   -> "Else"
      [] value = W_while  -> "While"
      [] value = W_return -> "Return"
      [] value = W_input  -> "Input"
      [] value = W_output -> "Output"
      [] OTHER            -> "Identifier"

readIdentifier(src, ls) ==
    LET r == readWord(src, ls, <<>>)
    IN  [tok |-> Token(WordType(r.value), r.value, r.ls.line, ls.column),
         ls |-> r.ls]

\* the operators that may be followed by '='
TwoCharType(c) ==
    CASE c = "=" -> "EqualEqual"   [] c = "!" -> "NotEqual"
      [] c = "<" -> "LessEqual"    [] c = ">" -> "GreaterEqual"
OneCharType(c) ==
    CASE c = "=" -> "Equal" [] c = "!" -> "Not"
      [] c = "<" -> "Less"  [] c = ">" -> "Greater"
      [] c = "+" -> "Plus"  [] c = "-" -> "Minus"
      [] c = "*" -> "Star"  [] c = "/" -> "Slash"
      [] c = "{" -> "LBrace"   [] c = "}" -> "RBrace"
      [] c = "(" -> "LParen"   [] c = ")" -> "RParen"
      [] c = "[" -> "LBracket" [] c = "]" -> "RBracket"
      [] c = ";" -> "Semicolon" [] c = "," -> "Comma"
      [] OTHER -> "none"

\* the token nextToken returns at ls, where c is the character there
scanToken(src, ls, c) ==
    IF ls.pos >= Len(src)
    THEN [ok |-> TRUE, tok |-> Token("Eof", <<>>, ls.line, ls.column), ls |-> ls]
    ELSE IF isdigit(c)
    THEN [ok |-> TRUE] @@ readNumber(src, ls)
    ELSE IF isalpha(c) \/ c = "_"
    THEN [ok |-> TRUE] @@ readIdentifier(src, ls)
    ELSE IF c \in {"=", "!", "<", ">"}
    THEN IF ls.pos + 1 < Len(src) /\ nextChar(src, ls) = "="
         THEN The({[ok |-> TRUE, ls |-> a,
                    tok |-> Token(TwoCharType(c), <<c, "=">>, a.line, a.column - 1)]
                   : a \in {lexAdvance(src, lexAdvance(src, ls))}})
         ELSE The({[ok |-> TRUE, ls |-> a,
                    tok |-> Token(OneCharType(c), <<c>>, a.line, a.column)]
                   : a \in {lexAdvance(src, ls)}})
    ELSE IF OneCharType(c) # "none"
    THEN The({[ok |-> TRUE, ls |-> a,
               tok |-> Token(OneCharType(c), <<c>>, a.line, a.column)]
              : a \in {lexAdvance(src, ls)}})
    ELSE [ok |-> FALSE, ls |-> ls, tok |-> Token("none", <<c>>, ls.line, ls.column)]

\* Lexer::nextToken: [ok, tok, ls]; ok = FALSE is the runtime_error thrown
\* for an unexpected character
nextToken(src, ls0) ==
    The({scanToken(src, ls, peekChar(src, ls))
         : ls \in {handleComments(src, skipWhitespace(src, ls0))}})

\* Lexer::tokenize: [ok, tokens, bad]; ok = FALSE when nextToken threw on
\* the character bad.  tokenizeStep is the loop body for the token result r
RECURSIVE tokenizeFrom(_, _, _)
tokenizeStep(src, toks, r) ==
    IF ~r.ok THEN [ok |-> FALSE, tokens |-> toks, bad |-> r.tok.value]
    ELSE IF r.tok.type = "Eof"
    THEN [ok |-> TRUE, tokens |-> Append(toks, r.tok), bad |-> <<>>]
    ELSE tokenizeFrom(src, r.ls, Append(toks, r.tok))

tokenizeFrom(src, ls, toks) == tokenizeStep(src, toks, nextToken(src, ls))

tokenize(src) == tokenizeFrom(src, LexerInit, <<>>)

-----------------------------------------------------------------------------
(* AST (ast.h).  A node is a record with a kind; nullptr is Null.           *)

VarDeclarationNode(type, name, arraySize) ==
    [kind |-> "VarDeclaration", type |-> type, name |-> name, arraySize |-> arraySize]
ParameterNode(type, name, isArray) ==
    [kind |-> "Parameter", type |-> type, name |-> name, isArray |-> isArray]
FunDeclarationNode(type, name, params, body) ==
    [kind |-> "FunDeclaration", return_type |-> type, name |-> name,
     params |-> params, body |-> body]
CompoundStmtNode(locals, statements) ==
    [kind |-> "CompoundStmt", locals |-> locals, statements |-> statements]
IfStmtNode(cond, thenStmt, elseStmt) ==
    [kind |-> "IfStmt", cond |-> cond, thenStmt |-> thenStmt, elseStmt |-> elseStmt]
WhileStmtNode(cond, body) == [kind |-> "WhileStmt", cond |-> cond, body |-> body]
ReturnStmtNode(expr) == [kind |-> "ReturnStmt", expr |-> expr]
BinaryOpNode(op, left, right) ==
    [kind |-> "BinaryOp", op |-> op, left |-> left, right |-> right]
UnaryOpNode(op, operand) == [kind |-> "UnaryOp", op |-> op, operand |-> operand]
VariableNode(name, index) == [kind |-> "Variable", name |-> name, index |-> index]
CallNode(name, args) == [kind |-> "Call", name |-> name, args |-> args]
NumberNode(value) == [kind |-> "Number", value |-> value]
ProgramNode(declarations) == [kind |-> "Program", declarations |-> declarations]

-----------------------------------------------------------------------------
(* Parser (parser.cpp).  Every parse function takes the token vector and    *)
(* the cursor `current` (from 0) and returns [ok, node, cur, msg]: the node *)
(* and the cursor after it, or ok = FALSE with the cursor where the         *)
(* std::runtime_error was thrown and its message.                           *)

Ok(node, cur)   == [ok |-> TRUE, node |-> node, cur |-> cur, msg |-> ""]
Throw(msg, cur) == [ok |-> FALSE, node |-> Null, cur |-> cur, msg |-> msg]

peek(toks, cur)     == toks[cur + 1]
previous(toks, cur) == toks[cur]
isAtEnd(toks, cur)  == peek(toks, cur).type = "Eof"
check(toks, cur, type) ==
    IF isAtEnd(toks, cur) THEN FALSE ELSE peek(toks, cur).type = type
\* Parser::advance: the cursor after it
advance(toks, cur) == IF ~isAtEnd(toks, cur) THEN cur + 1 ELSE cur
\* tokens[current + 1].type() == type, under current + 1 < tokens.size()
checkNext(toks, cur, type) == cur + 1 < Len(toks) /\ toks[cur + 2].type = type

RECURSIVE parse_statement(_, _), parse_compound_stmt(_, _),
          parse_expression(_, _), parse_factor(_, _), parse_args_loop(_, _, _),
          parse_statements_loop(_, _, _)

parse_var_declaration(toks, cur, type, name) ==
    IF check(toks, cur, "LBracket")
    THEN IF ~check(toks, cur + 1, "Number") THEN Throw("Expected array size", cur + 1)
         ELSE The({IF ~n.ok THEN Throw("stoi", cur + 1)
                   ELSE IF ~check(toks, cur + 2, "RBracket")
                   THEN Throw("Expected ']'", cur + 2)
                   ELSE IF ~check(toks, cur + 3, "Semicolon")
                   THEN Throw("Expected ';' after variable declaration", cur + 3)
                   ELSE Ok(VarDeclarationNode(type, name, n.value), cur + 4)
                   : n \in {stoi(peek(toks, cur + 1).value)}})
    ELSE IF ~check(toks, cur, "Semicolon")
    THEN Throw("Expected ';' after variable declaration", cur)
    ELSE Ok(VarDeclarationNode(type, name, -1), cur + 1)

parse_param(toks, cur) ==
    LET type == peek(toks, cur).value
        c1   == advance(toks, cur)
    IN  IF ~check(toks, c1, "Identifier") THEN Throw("Expected parameter name", c1)
        ELSE IF check(toks, c1 + 1, "LBracket")
        THEN IF ~check(toks, c1 + 2, "RBracket") THEN Throw("Expected ']'", c1 + 2)
             ELSE Ok(ParameterNode(type, peek(toks, c1).value, TRUE), c1 + 3)
        ELSE Ok(ParameterNode(type, peek(toks, c1).value, FALSE), c1 + 1)

\* do { params.push_back(parse_param()); } while (match(Comma));
RECURSIVE parse_params_loop(_, _, _)
parse_params_loop(toks, cur, params) ==
    The({IF ~p.ok THEN p
         ELSE IF check(toks, p.cur, "Comma")
         THEN parse_params_loop(toks, p.cur + 1, Append(params, p.node))
         ELSE Ok(Append(params, p.node), p.cur)
         : p \in {parse_param(toks, cur)}})

parse_params(toks, cur) ==
    IF check(toks, cur, "Void") THEN Ok(<<>>, cur + 1)
    ELSE IF check(toks, cur, "RParen") THEN Ok(<<>>, cur)
    ELSE parse_params_loop(toks, cur, <<>>)

\* entered with the cursor on '(' (match(LParen) consumes it)
parse_fun_declaration(toks, cur, type, name) ==
    The({IF ~params.ok THEN params
         ELSE IF ~check(toks, params.cur, "RParen")
         THEN Throw("Expected ')' after parameters", params.cur)
         ELSE The({IF ~body.ok THEN body
                   ELSE Ok(FunDeclarationNode(type, name, params.node, body.node),
                           body.cur)
                   : body \in {parse_compound_stmt(toks, params.cur + 1)}})
         : params \in {parse_params(toks, IF check(toks, cur, "LParen")
                                          THEN cur + 1 ELSE cur)}})

parse_declaration(toks, cur) ==
    IF check(toks, cur, "Int") \/ check(toks, cur, "Void")
    THEN IF check(toks, cur + 1, "Identifier")
         THEN IF check(toks, cur + 2, "LParen")
              THEN parse_fun_declaration(toks, cur + 2, peek(toks, cur).value,
                                         peek(toks, cur + 1).value)
              ELSE parse_var_declaration(toks, cur + 2, peek(toks, cur).value,
                                         peek(toks, cur + 1).value)
         ELSE Throw("Expected identifier after type", cur + 1)
    ELSE Throw("Expected declaration", cur)

\* while (check(Int) || check(Void)) { ... locals.push_back(...) }
RECURSIVE parse_locals_loop(_, _, _)
parse_locals_loop(toks, cur, locals) ==
    IF check(toks, cur, "Int") \/ check(toks, cur, "Void")
    THEN IF ~check(toks, cur + 1, "Identifier")
         THEN Throw("Expected identifier after type", cur + 1)
         ELSE The({IF ~d.ok THEN d
                   ELSE parse_locals_loop(toks, d.cur, Append(locals, d.node))
                   : d \in {parse_var_declaration(toks, cur + 2, peek(toks, cur).value,
                                                  peek(toks, cur + 1).value)}})
    ELSE Ok(locals, cur)

\* while (!check(RBrace) && !isAtEnd()) statements.push_back(parse_statement());
parse_statements_loop(toks, cur, stmts) ==
    IF ~check(toks, cur, "RBrace") /\ ~isAtEnd(toks, cur)
    THEN The({IF ~st.ok THEN st
              ELSE parse_statements_loop(toks, st.cur, Append(stmts, st.node))
              : st \in {parse_statement(toks, cur)}})
    ELSE Ok(stmts, cur)

parse_compound_stmt(toks, cur) ==
    IF ~check(toks, cur, "LBrace")
    THEN Throw("Expected '{' at start of compound statement", cur)
    ELSE The({IF ~locals.ok THEN locals
              ELSE The({IF ~stmts.ok THEN stmts
                        ELSE IF ~check(toks, stmts.cur, "RBrace")
                        THEN Throw("Expected '}' at end of compound statement",
                                   stmts.cur)
                        ELSE Ok(CompoundStmtNode(locals.node, stmts.node), stmts.cur + 1)
                        : stmts \in {parse_statements_loop(toks, locals.cur, <<>>)}})
              : locals \in {parse_locals_loop(toks, cur + 1, <<>>)}})

parse_expression_stmt(toks, cur) ==
    IF check(toks, cur, "Semicolon") THEN Ok(Null, cur + 1)
    ELSE The({IF ~e.ok THEN e
              ELSE IF ~check(toks, e.cur, "Semicolon")
              THEN Throw("Expected ';' after expression", e.cur)
              ELSE Ok(e.node, e.cur + 1)
              : e \in {parse_expression(toks, cur)}})

\* entered with the cursor on 'if'
parse_selection_stmt(toks, cur) ==
    IF ~check(toks, cur + 1, "LParen") THEN Throw("Expected '(' after 'if'", cur + 1)
    ELSE The({IF ~cond.ok THEN cond
              ELSE IF ~check(toks, cond.cur, "RParen")
              THEN Throw("Expected ')' after condition", cond.cur)
              ELSE The({IF ~th.ok THEN th
                        ELSE IF check(toks, th.cur, "Else")
                        THEN The({IF ~el.ok THEN el
                                  ELSE Ok(IfStmtNode(cond.node, th.node, el.node), el.cur)
                                  : el \in {parse_statement(toks, th.cur + 1)}})
                        ELSE Ok(IfStmtNode(cond.node, th.node, Null), th.cur)
                        : th \in {parse_statement(toks, cond.cur + 1)}})
              : cond \in {parse_expression(toks, cur + 2)}})

\* entered with the cursor on 'while'
parse_iteration_stmt(toks, cur) ==
    IF ~check(toks, cur + 1, "LParen") THEN Throw("Expected '(' after 'while'", cur + 1)
    ELSE The({IF ~cond.ok THEN cond
              ELSE IF ~check(toks, cond.cur, "RParen")
              THEN Throw("Expected ')' after condition", cond.cur)
              ELSE The({IF ~body.ok THEN body
                        ELSE Ok(WhileStmtNode(cond.node, body.node), body.cur)
                        : body \in {parse_statement(toks, cond.cur + 1)}})
              : cond \in {parse_expression(toks, cur + 2)}})

\* entered with the cursor on 'return'
parse_return_stmt(toks, cur) ==
    IF check(toks, cur + 1, "Semicolon") THEN Ok(ReturnStmtNode(Null), cur + 2)
    ELSE The({IF ~e.ok THEN e
              ELSE IF ~check(toks, e.cur, "Semicolon")
              THEN Throw("Expected ';' after return value", e.cur)
              ELSE Ok(ReturnStmtNode(e.node), e.cur + 1)
              : e \in {parse_expression(toks, cur + 1)}})

parse_statement(toks, cur) ==
    IF check(toks, cur, "If") THEN parse_selection_stmt(toks, cur)
    ELSE IF check(toks, cur, "While") THEN parse_iteration_stmt(toks, cur)
    ELSE IF check(toks, cur, "Return") THEN parse_return_stmt(toks, cur)
    ELSE IF check(toks, cur, "LBrace") THEN parse_compound_stmt(toks, cur)
    ELSE parse_expression_stmt(toks, cur)

parse_var(toks, cur) ==
    IF ~check(toks, cur, "Identifier") THEN Throw("Expected variable name", cur)
    ELSE IF check(toks, cur + 1, "LBracket")
    THEN The({IF ~index.ok THEN index
              ELSE IF ~check(toks, index.cur, "RBracket")
              THEN Throw("Expected ']'", index.cur)
              ELSE Ok(VariableNode(peek(toks, cur).value, index.node), index.cur + 1)
              : index \in {parse_expression(toks, cur + 2)}})
    ELSE Ok(VariableNode(peek(toks, cur).value, Null), cur + 1)

\* while (check(Star) || check(Slash)) { ... }
RECURSIVE parse_term_loop(_, _, _)
parse_term_loop(toks, cur, left) ==
    IF check(toks, cur, "Star") \/ check(toks, cur, "Slash")
    THEN The({IF ~right.ok THEN right
              ELSE parse_term_loop(toks, right.cur,
                                   BinaryOpNode(peek(toks, cur).value, left, right.node))
              : right \in {parse_factor(toks, cur + 1)}})
    ELSE Ok(left, cur)

parse_term(toks, cur) ==
    The({IF ~left.ok THEN left ELSE parse_term_loop(toks, left.cur, left.node)
         : left \in {parse_factor(toks, cur)}})

\* while (check(Plus) || check(Minus)) { ... }
RECURSIVE parse_additive_loop(_, _, _)
parse_additive_loop(toks, cur, left) ==
    IF check(toks, cur, "Plus") \/ check(toks, cur, "Minus")
    THEN The({IF ~right.ok THEN right
              ELSE parse_additive_loop(toks, right.cur,
                                       BinaryOpNode(peek(toks, cur).value, left,
                                                    right.node))
              : right \in {parse_term(toks, cur + 1)}})
    ELSE Ok(left, cur)

parse_additive_expression(toks, cur) ==
    The({IF ~left.ok THEN left ELSE parse_additive_loop(toks, left.cur, left.node)
         : left \in {parse_term(toks, cur)}})

parse_simple_expression(toks, cur) ==
    The({IF ~left.ok THEN left
         ELSE IF \E t \in {"Less", "LessEqual", "Greater", "GreaterEqual",
                           "EqualEqual", "NotEqual"} : check(toks, left.cur, t)
         THEN The({IF ~right.ok THEN right
                   ELSE Ok(BinaryOpNode(peek(toks, left.cur).value, left.node,
                                        right.node), right.cur)
                   : right \in {parse_additive_expression(toks, left.cur + 1)}})
         ELSE left
         : left \in {parse_additive_expression(toks, cur)}})

\* the assignment is recognised only when '=' is the token right after the
\* identifier
parse_expression(toks, cur) ==
    IF check(toks, cur, "Identifier") /\ checkNext(toks, cur, "Equal")
    THEN The({IF ~left.ok THEN left
              ELSE The({IF ~right.ok THEN right
                        ELSE Ok(BinaryOpNode(<<"=">>, left.node, right.node), right.cur)
                        : right \in {parse_expression(toks,
                                         IF check(toks, left.cur, "Equal")
                                         THEN left.cur + 1 ELSE left.cur)}})
              : left \in {parse_var(toks, cur)}})
    ELSE parse_simple_expression(toks, cur)

\* do { args.push_back(parse_expression()); } while (match(Comma));
parse_args_loop(toks, cur, args) ==
    The({IF ~e.ok THEN e
         ELSE IF check(toks, e.cur, "Comma")
         THEN parse_args_loop(toks, e.cur + 1, Append(args, e.node))
         ELSE Ok(Append(args, e.node), e.cur)
         : e \in {parse_expression(toks, cur)}})

parse_args(toks, cur) ==
    IF check(toks, cur, "RParen") THEN Ok(<<>>, cur)
    ELSE parse_args_loop(toks, cur, <<>>)

\* entered with the cursor on the callee's name, '(' next
parse_call(toks, cur) ==
    The({IF ~args.ok THEN args
         ELSE IF ~check(toks, args.cur, "RParen")
         THEN Throw("Expected ')' after arguments", args.cur)
         ELSE Ok(CallNode(peek(toks, cur).value, args.node), args.cur + 1)
         : args \in {parse_args(toks, IF check(toks, cur + 1, "LParen")
                                      THEN cur + 2 ELSE cur + 1)}})

parse_factor(toks, cur) ==
    IF check(toks, cur, "LParen")
    THEN The({IF ~e.ok THEN e
              ELSE IF ~check(toks, e.cur, "RParen") THEN Throw("Expected ')'", e.cur)
              ELSE Ok(e.node, e.cur + 1)
              : e \in {parse_expression(toks, cur + 1)}})
    ELSE IF check(toks, cur, "Identifier")
    THEN IF checkNext(toks, cur, "LParen") THEN parse_call(toks, cur)
         ELSE parse_var(toks, cur)
    ELSE IF check(toks, cur, "Number")
    THEN The({IF ~n.ok THEN Throw("stoi", cur) ELSE Ok(NumberNode(n.value), cur + 1)
              : n \in {stoi(peek(toks, cur).value)}})
    ELSE IF check(toks, cur, "Minus") \/ check(toks, cur, "Not")
    THEN The({IF ~operand.ok THEN operand
              ELSE Ok(UnaryOpNode(IF check(toks, cur, "Minus") THEN <<"-">> ELSE <<"!">>,
                                  operand.node), operand.cur)
              : operand \in {parse_factor(toks, cur + 1)}})
    ELSE Throw("Expected expression", cur)

\* Parser::synchronize: the cursor after it
RECURSIVE synchronize(_, _)
synchronize(toks, cur) ==
    IF isAtEnd(toks, cur) THEN cur
    ELSE IF previous(toks, cur).type = "Semicolon" THEN cur
    ELSE IF peek(toks, cur).type \in {"If", "While", "Return", "Int", "Void"} THEN cur
    ELSE synchronize(toks, advance(toks, cur))

\* a recovery that leaves the cursor where the exception was thrown
error_recovery_staying(toks, cur) == cur

\* Parser::error_recovery: the cursor after it (the diagnostic goes to cerr)
error_recovery(toks, cur) == synchronize(toks, advance(toks, cur))

\* Parser::parse_program from cursor 0: the Program node and, in errors,
\* the messages of the exceptions caught, in order (they go to cerr only).
RECURSIVE parse_program_loop(_, _, _, _)
parse_program_loop(toks, cur, decls, errors) ==
    IF isAtEnd(toks, cur)
    THEN [node |-> ProgramNode(decls), errors |-> errors, cur |-> cur]
    ELSE The({IF d.ok
              THEN parse_program_loop(toks, d.cur, Append(decls, d.node), errors)
              ELSE parse_program_loop(toks, error_recovery(toks, d.cur), decls,
                                      Append(errors, d.msg))
              : d \in {parse_declaration(toks, cur)}})

parse_program(toks) == parse_program_loop(toks, 0, <<>>, <<>>)

-----------------------------------------------------------------------------
(* Symbols and scopes (symbol.h, symbol-table.h, semantic-types.h).         *)
(* A scope is a function from names to symbols; the chain current_scope ->  *)
(* parent -> ... -> global_scope is the sequence scopes, global first.      *)

stringToDataType(typeStr) ==
    IF typeStr = W_int THEN "INT" ELSE IF typeStr = W_void THEN "VOID" ELSE "UNKNOWN"

VariableSymbol(name, dt, array, param) ==
    [symbol_type |-> IF param THEN "PARAMETER" ELSE "VARIABLE",
     name |-> name, data_type |-> dt, is_array |-> array, is_parameter |-> param]

\* VariableSymbol::getDataType
getDataType(sym) == IF sym.is_array THEN "INT_ARRAY" ELSE sym.data_type

FunctionSymbol(name, rt) ==
    [symbol_type |-> "FUNCTION", name |-> name, return_type |-> rt,
     parameters |-> <<>>, is_defined |-> FALSE]

BuiltinFunctionSymbol(name, rt, parameters) ==
    [symbol_type |-> "BUILTIN", name |-> name, return_type |-> rt,
     parameters |-> parameters, is_defined |-> TRUE]

EmptyScope == [n \in {} |-> Null]

\* SymbolTable::enter_scope / exit_scope on the chain
enter_scope(scopes) == Append(scopes, EmptyScope)
exit_scope(scopes)  == SubSeq(scopes, 1, Len(scopes) - 1)

\* a declare_symbol that looks for the name in the ancestor scopes too
declare_symbol_no_shadowing(scopes, sym) ==
    IF \E l \in 1..Len(scopes) : sym.name \in DOMAIN scopes[l]
    THEN [ok |-> FALSE, scopes |-> scopes]
    ELSE [ok |-> TRUE,
          scopes |-> [scopes EXCEPT ![Len(scopes)] =
                          (sym.name :> sym) @@ scopes[Len(scopes)]]]

\* SymbolTable::declare_symbol in the current scope: [ok, scopes]
declare_symbol(scopes, sym) ==
    LET top == scopes[Len(scopes)]
    IN  IF sym.name \in DOMAIN top THEN [ok |-> FALSE, scopes |-> scopes]
        ELSE [ok |-> TRUE,
              scopes |-> [scopes EXCEPT ![Len(scopes)] = (sym.name :> sym) @@ top]]

\* SymbolTable::lookup_symbol from scope number level upwards: the number of
\* the scope that binds name, 0 for nullptr
RECURSIVE lookup_symbol(_, _, _)
lookup_symbol(scopes, level, name) ==
    IF level = 0 THEN 0
    ELSE IF name \in DOMAIN scopes[level] THEN level
    ELSE lookup_symbol(scopes, level - 1, name)

-----------------------------------------------------------------------------
(* Semantic analyzer (semantic-analyzer.cpp).  Its state is                 *)
(* [scopes, current_function, errors]; current_function is the number of    *)
(* the scope and the name of the FunctionSymbol it points to, or Null.      *)

SemanticError(message, type) == [message |-> message, error_type |-> type]
add_error(S, message, type) ==
    [S EXCEPT !.errors = Append(@, SemanticError(message, type))]
has_errors(S) == S.errors # <<>>

\* SemanticAnalyzer::SemanticAnalyzer with initialize_builtin_functions
NewSemanticAnalyzer ==
    LET input_func  == BuiltinFunctionSymbol(W_input, "INT", <<>>)
        output_func == BuiltinFunctionSymbol(W_output, "VOID",
                           <<VariableSymbol(<<"v", "a", "l", "u", "e">>, "INT", FALSE, TRUE)>>)
        g1 == declare_symbol(<<EmptyScope>>, input_func).scopes
        g2 == declare_symbol(g1, output_func).scopes
    IN  [scopes |-> g2, current_function |-> Null, errors |-> <<>>]

\* get_variable_symbol / get_function_symbol: the scope number, 0 for nullptr
get_variable_symbol(S, name) ==
    LET l == lookup_symbol(S.scopes, Len(S.scopes), name)
    IN  IF l # 0 /\ S.scopes[l][name].symbol_type = "VARIABLE" THEN l ELSE 0

get_function_symbol(S, name) ==
    LET l == lookup_symbol(S.scopes, Len(S.scopes), name)
    IN  IF l # 0 /\ S.scopes[l][name].symbol_type \in {"FUNCTION", "BUILTIN"} THEN l ELSE 0

get_expression_type(S, expr) ==
    CASE expr.kind = "Number" -> "INT"
      [] expr.kind = "Variable" ->
            LET l == get_variable_symbol(S, expr.name)
            IN  IF l = 0 THEN "UNKNOWN"
                ELSE IF expr.index # Null THEN "INT"
                ELSE IF S.scopes[l][expr.name].is_array THEN "INT_ARRAY"
                ELSE S.scopes[l][expr.name].data_type
      [] expr.kind = "Call" ->
            LET l == get_function_symbol(S, expr.name)
            IN  IF l = 0 THEN "UNKNOWN" ELSE S.scopes[l][expr.name].return_type
      [] expr.kind = "BinaryOp" -> "INT"
      [] expr.kind = "UnaryOp" -> "INT"
      [] OTHER -> "UNKNOWN"

check_assignment(S, assignment) ==
    IF assignment.left.kind # "Variable"
    THEN add_error(S, <<"Left side of assignment must be a variable">>, "TYPE_MISMATCH")
    ELSE LET left_type  == get_expression_type(S, assignment.left)
             right_type == get_expression_type(S, assignment.right)
         IN  IF left_type = "INT_ARRAY" /\ right_type = "INT_ARRAY"
             THEN add_error(S, <<"Cannot assign arrays">>, "TYPE_MISMATCH")
             ELSE IF left_type # right_type /\ left_type # "INT"
             THEN add_error(S, <<"Type mismatch: expected ", left_type, ", got ", right_type>>,
                            "TYPE_MISMATCH")
             ELSE S

check_binary_operation(S, binary_op) ==
    IF get_expression_type(S, binary_op.left) # "INT"
       \/ get_expression_type(S, binary_op.right) # "INT"
    THEN add_error(S, <<"Binary operation requires integer operands">>, "TYPE_MISMATCH")
    ELSE S

check_unary_operation(S, unary_op) ==
    IF get_expression_type(S, unary_op.operand) # "INT"
    THEN add_error(S, <<"Unary operation requires integer operand">>, "TYPE_MISMATCH")
    ELSE S

visitVarDeclaration(S, node) ==
    IF stringToDataType(node.type) = "VOID"
    THEN add_error(S, <<"Variable '", node.name, "' cannot be of type void">>, "VOID_VARIABLE")
    ELSE LET sym == VariableSymbol(node.name, stringToDataType(node.type),
                                   node.arraySize # -1, FALSE)
             d   == declare_symbol(S.scopes, sym)
         IN  IF d.ok THEN [S EXCEPT !.scopes = d.scopes]
             ELSE add_error(S, <<"Redefinition of '", node.name, "'">>, "REDEFINITION")

\* the parameter loop of visit(FunDeclaration&): each parameter is appended
\* to the FunctionSymbol found at scope fl and declared in the current scope
RECURSIVE visitParams(_, _, _, _, _)
visitParams(S, fl, fname, params, i) ==
    IF i > Len(params) THEN S
    ELSE LET param == params[i]
             sym == VariableSymbol(param.name, stringToDataType(param.type),
                                   param.isArray, TRUE)
             pushed == [S.scopes EXCEPT ![fl][fname].parameters = Append(@, sym)]
             d == declare_symbol(pushed, sym)
             S1 == [S EXCEPT !.scopes = d.scopes]
         IN  visitParams(IF d.ok THEN S1
                         ELSE add_error(S1, <<"Redefinition of '", param.name, "'">>,
                                        "REDEFINITION"),
                         fl, fname, params, i + 1)

RECURSIVE visit(_, _), visitAll(_, _, _), check_function_call(_, _),
          checkArgs(_, _, _, _)

\* for (node : nodes) if (node) node->accept(*this);
visitAll(S, nodes, i) ==
    IF i > Len(nodes) THEN S
    ELSE visitAll(IF nodes[i] # Null THEN visit(S, nodes[i]) ELSE S, nodes, i + 1)

\* the argument loop of check_function_call against the parameters of the
\* FunctionSymbol at scope fl
checkArgs(S, call, fl, i) ==
    IF i > Len(call.args) THEN S
    ELSE LET S1 == visit(S, call.args[i])
             arg_type   == get_expression_type(S1, call.args[i])
             param_type == getDataType(S1.scopes[fl][call.name].parameters[i])
         IN  checkArgs(IF (arg_type = "INT" /\ param_type = "INT")
                          \/ (arg_type = "INT_ARRAY" /\ param_type = "INT_ARRAY")
                       THEN S1
                       ELSE add_error(S1, <<"Type mismatch: expected ", param_type,
                                            ", got ", arg_type>>, "TYPE_MISMATCH"),
                       call, fl, i + 1)

check_function_call(S, call) ==
    LET fl == get_function_symbol(S, call.name)
    IN  IF fl = 0
        THEN add_error(S, <<"Undefined function '", call.name, "'">>, "UNDEFINED_FUNCTION")
        ELSE IF Len(call.args) # Len(S.scopes[fl][call.name].parameters)
        THEN add_error(S, <<"Function call '", call.name,
                            "' does not match any declaration">>,
                       "FUNCTION_SIGNATURE_MISMATCH")
        ELSE checkArgs(S, call, fl, 1)

visitFunDeclaration(S, node) ==
    LET fl == lookup_symbol(S.scopes, Len(S.scopes), node.name)
    IN  IF fl = 0 \/ S.scopes[fl][node.name].symbol_type \notin {"FUNCTION", "BUILTIN"}
        THEN add_error(S, <<"Undefined function '", node.name, "'">>, "UNDEFINED_FUNCTION")
        ELSE LET S1 == [S EXCEPT !.current_function = [level |-> fl, name |-> node.name],
                                 !.scopes = enter_scope(@)]
                 S2 == visitParams(S1, fl, node.name, node.params, 1)
                 S3 == IF node.body # Null THEN visit(S2, node.body) ELSE S2
             IN  [S3 EXCEPT !.scopes = exit_scope(@), !.current_function = Null]

visitCompoundStmt(S, node) ==
    LET S1 == [S EXCEPT !.scopes = enter_scope(@)]
        S2 == visitAll(S1, node.locals, 1)
        S3 == visitAll(S2, node.statements, 1)
    IN  [S3 EXCEPT !.scopes = exit_scope(@)]

\* the condition check shared by visit(IfStmt&) and visit(WhileStmt&)
visitCond(S, cond) ==
    IF cond = Null THEN S
    ELSE LET S1 == visit(S, cond)
             cond_type == get_expression_type(S1, cond)
         IN  IF cond_type # "INT"
             THEN add_error(S1, <<"Type mismatch: expected ", "INT", ", got ", cond_type>>,
                            "TYPE_MISMATCH")
             ELSE S1

visitIfStmt(S, node) ==
    LET S1 == visitCond(S, node.cond)
        S2 == IF node.thenStmt # Null THEN visit(S1, node.thenStmt) ELSE S1
    IN  IF node.elseStmt # Null THEN visit(S2, node.elseStmt) ELSE S2

visitWhileStmt(S, node) ==
    LET S1 == visitCond(S, node.cond)
    IN  IF node.body # Null THEN visit(S1, node.body) ELSE S1

visitReturnStmt(S, node) ==
    IF S.current_function = Null
    THEN add_error(S, <<"Return statement outside function">>, "RETURN_TYPE_MISMATCH")
    ELSE LET f == S.scopes[S.current_function.level][S.current_function.name]
         IN  IF node.expr # Null
             THEN LET S1 == visit(S, node.expr)
                      expr_type == get_expression_type(S1, node.expr)
                  IN  IF expr_type # f.return_type
                      THEN add_error(S1, <<"Return type mismatch: expected ",
                                           f.return_type, ", got ", expr_type>>,
                                     "RETURN_TYPE_MISMATCH")
                      ELSE S1
             ELSE IF f.return_type # "VOID"
             THEN add_error(S, <<"Return type mismatch: expected ", f.return_type,
                                 ", got ", "VOID">>, "RETURN_TYPE_MISMATCH")
             ELSE S

visitBinaryOp(S, node) ==
    LET S1 == IF node.left # Null THEN visit(S, node.left) ELSE S
        S2 == IF node.right # Null THEN visit(S1, node.right) ELSE S1
    IN  IF node.op = <<"=">> THEN check_assignment(S2, node)
        ELSE check_binary_operation(S2, node)

visitUnaryOp(S, node) ==
    IF node.operand # Null THEN check_unary_operation(visit(S, node.operand), node)
    ELSE S

visitVariable(S, node) ==
    LET l == get_variable_symbol(S, node.name)
    IN  IF l = 0
        THEN add_error(S, <<"Undefined variable '", node.name, "'">>, "UNDEFINED_VARIABLE")
        ELSE IF node.index # Null
        THEN LET S1 == visit(S, node.index)
                 S2 == IF get_expression_type(S1, node.index) # "INT"
                       THEN add_error(S1, <<"Array index must be of type int">>,
                                      "ARRAY_INDEX_NOT_INT")
                       ELSE S1
             IN  IF ~S.scopes[l][node.name].is_array
                 THEN add_error(S2, <<"Index applied to non-array variable '",
                                      node.name, "'">>, "TYPE_MISMATCH")
                 ELSE S2
        ELSE S

\* node->accept(*this)
visit(S, node) ==
    CASE node.kind = "VarDeclaration" -> visitVarDeclaration(S, node)
      [] node.kind = "FunDeclaration" -> visitFunDeclaration(S, node)
      [] node.kind = "CompoundStmt"   -> visitCompoundStmt(S, node)
      [] node.kind = "IfStmt"         -> visitIfStmt(S, node)
      [] node.kind = "WhileStmt"      -> visitWhileStmt(S, node)
      [] node.kind = "ReturnStmt"     -> visitReturnStmt(S, node)
      [] node.kind = "BinaryOp"       -> visitBinaryOp(S, node)
      [] node.kind = "UnaryOp"        -> visitUnaryOp(S, node)
      [] node.kind = "Variable"       -> visitVariable(S, node)
      [] node.kind = "Call"           -> check_function_call(S, node)
      [] OTHER                        -> S

\* check_main_function without the test of the parameters: the fault the
\* formula of C8 has to detect
check_main_function_ignoring_parameters(S) ==
    IF get_function_symbol(S, W_main) = 0
    THEN add_error(S, <<"Program must have a main function">>, "MAIN_FUNCTION_MISSING")
    ELSE IF S.scopes[get_function_symbol(S, W_main)][W_main].return_type # "INT"
    THEN add_error(S, <<"Main function must have signature: int main(void)">>,
                   "MAIN_FUNCTION_INVALID")
    ELSE S

check_main_function(S) ==
    LET l == get_function_symbol(S, W_main)
    IN  IF l = 0
        THEN add_error(S, <<"Program must have a main function">>, "MAIN_FUNCTION_MISSING")
        ELSE IF S.scopes[l][W_main].return_type # "INT"
                \/ S.scopes[l][W_main].parameters # <<>>
        THEN add_error(S, <<"Main function must have signature: int main(void)">>,
                       "MAIN_FUNCTION_INVALID")
        ELSE S

\* the first pass of analyze: a FunctionSymbol without parameters for every
\* function declaration
RECURSIVE collectFunctions(_, _, _)
collectFunctions(S, decls, i) ==
    IF i > Len(decls) THEN S
    ELSE IF decls[i].kind = "FunDeclaration"
    THEN LET sym == [FunctionSymbol(decls[i].name, stringToDataType(decls[i].return_type))
                       EXCEPT !.is_defined = decls[i].body # Null]
             d   == declare_symbol(S.scopes, sym)
         IN  collectFunctions(IF d.ok THEN [S EXCEPT !.scopes = d.scopes]
                              ELSE add_error(S, <<"Redefinition of '", decls[i].name, "'">>,
                                             "REDEFINITION"),
                              decls, i + 1)
    ELSE collectFunctions(S, decls, i + 1)

\* SemanticAnalyzer::analyze: the analyzer afterwards; its return value is
\* ~has_errors of that
analyze(S, prog) ==
    LET S0 == [S EXCEPT !.errors = <<>>]
        S1 == collectFunctions(S0, prog.declarations, 1)
        S2 == visitAll(S1, prog.declarations, 1)
    IN  check_main_function(S2)

\* SemanticAnalyzer::reset_analysis: the errors are cleared and
\* current_scope is global_scope again; the symbols of global_scope stay
reset_analysis(S) ==
    [S EXCEPT !.errors = <<>>,
              !.current_function = Null,
              !.scopes = <<S.scopes[1]>>]

-----------------------------------------------------------------------------
(* Three-address code (ir-types.h).  Operands and results are strings, the  *)
(* empty string <<>> for an absent one.                                     *)

IRInstruction(op, res, arg1, arg2, line) ==
    [op |-> op, result |-> res, arg1 |-> arg1, arg2 |-> arg2, line_number |-> line]

is_branch(instr)        == instr.op \in {"GOTO", "IF_FALSE", "IF_TRUE"}
is_label(instr)         == instr.op = "LABEL"
is_function_call(instr) == instr.op = "CALL"
modifies_result(instr)  == instr.result # <<>> /\ instr.op \notin {"LABEL", "GOTO"}

\* IRInstruction::is_constant (private): a digit or a minus sign first
instr_is_constant(str) == str # <<>> /\ (isdigit(str[1]) \/ str[1] = "-")

\* IRInstruction::get_used_variables, as a set
get_used_variables(instr) ==
    {a \in {instr.arg1, instr.arg2} : a # <<>> /\ ~instr_is_constant(a)}

get_defined_variable(instr) == IF modifies_result(instr) THEN instr.result ELSE <<>>

-----------------------------------------------------------------------------
(* IR optimizer (ir-optimizer.cpp).                                         *)

\* IROptimizer::is_constant
is_constant(str) ==
    IF str = <<>> THEN FALSE
    ELSE isdigit(str[1]) \/ (str[1] = "-" /\ Len(str) > 1 /\ isdigit(str[2]))

\* IROptimizer::get_constant_value: [ok, value] of std::stoi
get_constant_value(str) == stoi(str)

\* C++ int division and remainder: the quotient is truncated towards zero
Abs(a) == IF a < 0 THEN 0 - a ELSE a
TruncDiv(a, b) ==
    IF (a < 0) = (b < 0) THEN Abs(a) \div Abs(b) ELSE 0 - (Abs(a) \div Abs(b))
TruncMod(a, b) == a - b * TruncDiv(a, b)

\* the switch of evaluate_constant_expression: the int each opcode yields
\* for val1 and val2 (val2 # 0 for DIV and MOD)
IntResult(val1, val2) ==
    [ADD |-> val1 + val2, SUB |-> val1 - val2, MUL |-> val1 * val2,
     DIV |-> IF val2 = 0 THEN 0 ELSE TruncDiv(val1, val2),
     MOD |-> IF val2 = 0 THEN 0 ELSE TruncMod(val1, val2),
     EQ |-> IF val1 = val2 THEN 1 ELSE 0,  NE |-> IF val1 # val2 THEN 1 ELSE 0,
     LT |-> IF val1 < val2 THEN 1 ELSE 0,  LE |-> IF val1 <= val2 THEN 1 ELSE 0,
     GT |-> IF val1 > val2 THEN 1 ELSE 0,  GE |-> IF val1 >= val2 THEN 1 ELSE 0,
     AND |-> IF val1 # 0 /\ val2 # 0 THEN 1 ELSE 0,
     OR |-> IF val1 # 0 \/ val2 # 0 THEN 1 ELSE 0]

\* IROptimizer::evaluate_constant_expression: [ok, value]; value is the
\* string returned, ok is FALSE where std::stoi throws.  The int arithmetic
\* is the C++ one wherever that is defined (no overflow).
evaluate_constant_expression(op, arg1, arg2) ==
    IF ~is_constant(arg1) \/ ~is_constant(arg2) THEN [ok |-> TRUE, value |-> <<>>]
    ELSE The({IF ~v1.ok \/ ~v2.ok THEN [ok |-> FALSE, value |-> <<>>]
              ELSE IF op \in {"DIV", "MOD"} /\ v2.value = 0 THEN [ok |-> TRUE, value |-> <<>>]
              ELSE IF op \in DOMAIN IntResult(1, 1)
              THEN [ok |-> TRUE, value |-> to_string(IntResult(v1.value, v2.value)[op])]
              ELSE [ok |-> TRUE, value |-> <<>>]
              : v1 \in {get_constant_value(arg1)}, v2 \in {get_constant_value(arg2)}})

\* map[key] = value on a std::unordered_map
MapPut(map, key, value) == (key :> value) @@ map
\* map.erase(key)
MapErase(map, key) == [k \in DOMAIN map \ {key} |-> map[k]]
\* the operand after `if (map.find(arg) != map.end()) arg = map[arg];`
Subst(map, arg) == IF arg \in DOMAIN map THEN map[arg] ELSE arg

\* the end of the loop body of constant_folding, after the folding: the
\* operands known constant are replaced, a constant assignment is remembered
substitute_constants(instr, constant_map) ==
    The({[ok |-> TRUE, instr |-> i,
          constant_map |-> IF i.op = "ASSIGN" /\ is_constant(i.arg1)
                           THEN MapPut(constant_map, i.result, i.arg1)
                           ELSE constant_map]
         : i \in {[instr EXCEPT !.arg1 = Subst(constant_map, instr.arg1),
                                !.arg2 = Subst(constant_map, instr.arg2)]}})

\* the body of the loop of constant_folding on one instruction:
\* [ok, instr, constant_map], ok FALSE where it throws
fold_instruction(instr, constant_map) ==
    IF is_constant(instr.arg1) /\ is_constant(instr.arg2)
    THEN The({IF ~r.ok THEN [ok |-> FALSE, instr |-> instr, constant_map |-> constant_map]
              ELSE IF r.value # <<>>
              THEN substitute_constants(
                       [instr EXCEPT !.op = "ASSIGN", !.arg1 = r.value, !.arg2 = <<>>],
                       MapPut(constant_map, instr.result, r.value))
              ELSE substitute_constants(instr, constant_map)
              : r \in {evaluate_constant_expression(instr.op, instr.arg1, instr.arg2)}})
    ELSE substitute_constants(instr, constant_map)

\* IROptimizer::constant_folding: [ok, code], ok FALSE where it throws
RECURSIVE constant_folding_loop(_, _, _)
constant_folding_loop(instructions, i, constant_map) ==
    IF i > Len(instructions) THEN [ok |-> TRUE, code |-> instructions]
    ELSE The({IF ~f.ok THEN [ok |-> FALSE, code |-> instructions]
              ELSE constant_folding_loop([instructions EXCEPT ![i] = f.instr], i + 1,
                                         f.constant_map)
              : f \in {fold_instruction(instructions[i], constant_map)}})

constant_folding(instructions) == constant_folding_loop(instructions, 1, EmptyScope)

\* the body of the loop of copy_propagation on one instruction:
\* [instr, copy_map]
propagate_instruction(instr, copy_map) ==
    LET i1 == [instr EXCEPT !.arg1 = Subst(copy_map, @)]
        i2 == [i1 EXCEPT !.arg2 = Subst(copy_map, @)]
        m1 == IF i2.op = "ASSIGN" /\ ~is_constant(i2.arg1)
              THEN MapPut(copy_map, i2.result, i2.arg1)
              ELSE IF i2.op = "COPY" THEN MapPut(copy_map, i2.result, i2.arg1)
              ELSE copy_map
        m2 == IF modifies_result(i2) THEN MapErase(m1, i2.result) ELSE m1
    IN  [instr |-> i2, copy_map |-> m2]

RECURSIVE copy_propagation_loop(_, _, _)
copy_propagation_loop(instructions, i, copy_map) ==
    IF i > Len(instructions) THEN instructions
    ELSE The({copy_propagation_loop([instructions EXCEPT ![i] = c.instr], i + 1,
                                    c.copy_map)
              : c \in {propagate_instruction(instructions[i], copy_map)}})

copy_propagation(instructions) == copy_propagation_loop(instructions, 1, EmptyScope)

\* IROptimizer::simplify_expression: the instruction afterwards
simplify_expression(instr) ==
    IF instr.op = "ADD" /\ instr.arg2 = <<"0">>
    THEN [instr EXCEPT !.op = "COPY", !.arg2 = <<>>]
    ELSE IF instr.op = "SUB" /\ instr.arg2 = <<"0">>
    THEN [instr EXCEPT !.op = "COPY", !.arg2 = <<>>]
    ELSE IF instr.op = "MUL" /\ instr.arg2 = <<"1">>
    THEN [instr EXCEPT !.op = "COPY", !.arg2 = <<>>]
    ELSE IF instr.op = "MUL" /\ instr.arg2 = <<"0">>
    THEN [instr EXCEPT !.op = "ASSIGN", !.arg1 = <<"0">>, !.arg2 = <<>>]
    ELSE IF instr.op = "DIV" /\ instr.arg2 = <<"1">>
    THEN [instr EXCEPT !.op = "COPY", !.arg2 = <<>>]
    ELSE instr

algebraic_simplification(instructions) ==
    [i \in 1..Len(instructions) |-> simplify_expression(instructions[i])]

\* IROptimizer::mark_used_variables: the set used_variables
mark_used_variables(instructions) ==
    UNION {get_used_variables(instructions[i]) : i \in 1..Len(instructions)}

\* is_dead_code without its first test, which keeps labels, branches, calls,
\* returns and function markers
is_dead_code_unprotected(instr, used_vars) ==
    get_defined_variable(instr) # <<>> /\ get_defined_variable(instr) \notin used_vars

is_dead_code(instr, used_vars) ==
    IF is_label(instr) \/ is_branch(instr) \/ is_function_call(instr)
       \/ instr.op \in {"RETURN", "FUNCTION_BEGIN", "FUNCTION_END"}
    THEN FALSE
    ELSE get_defined_variable(instr) # <<>> /\ get_defined_variable(instr) \notin used_vars

\* the instructions std::remove_if keeps, in their order
RECURSIVE RemoveDead(_, _)
RemoveDead(instructions, used_vars) ==
    IF instructions = <<>> THEN <<>>
    ELSE IF is_dead_code(Head(instructions), used_vars)
    THEN RemoveDead(Tail(instructions), used_vars)
    ELSE <<Head(instructions)>> \o RemoveDead(Tail(instructions), used_vars)

\* the reverse of a list
RECURSIVE Reverse(_)
Reverse(seq) == IF seq = <<>> THEN <<>> ELSE Reverse(Tail(seq)) \o <<Head(seq)>>

\* dead_code_elimination with an unstable partition in place of
\* std::remove_if, which leaves the kept instructions in another order: the
\* fault the formula of C10 has to detect
dead_code_elimination_unstable(instructions) ==
    Reverse(RemoveDead(instructions, mark_used_variables(instructions)))

dead_code_elimination(instructions) ==
    RemoveDead(instructions, mark_used_variables(instructions))

\* IROptimizer::optimize: [ok, code], ok FALSE where it throws
optimize(instructions) ==
    The({IF ~folded.ok THEN [ok |-> FALSE, code |-> instructions]
         ELSE [ok |-> TRUE,
               code |-> dead_code_elimination(
                            algebraic_simplification(copy_propagation(folded.code)))]
         : folded \in {constant_folding(instructions)}})

-----------------------------------------------------------------------------
(* IR generator (ir-generator.cpp).  Its state is [instructions,            *)
(* temp_counter, label_counter, last_expression_result].                    *)

\* IRGenerator::IRGenerator
NewIRGenerator ==
    [instructions |-> <<>>, temp_counter |-> 0, label_counter |-> 0,
     last_expression_result |-> <<>>]

emit(G, op, res, arg1, arg2) ==
    [G EXCEPT !.instructions = Append(@, IRInstruction(op, res, arg1, arg2, 0))]

\* new_temp / new_label: the name; the counter is advanced by the caller
new_temp(G)  == <<"t">> \o to_string(G.temp_counter)
new_label(G) == <<"L">> \o to_string(G.label_counter)

BinaryOpCode(op) ==
    CASE op = <<"+">> -> "ADD"  [] op = <<"-">> -> "SUB"  [] op = <<"*">> -> "MUL"
      [] op = <<"/">> -> "DIV"  [] op = <<"%">> -> "MOD"
      [] op = <<"=", "=">> -> "EQ"  [] op = <<"!", "=">> -> "NE"
      [] op = <<"<">> -> "LT"   [] op = <<"<", "=">> -> "LE"
      [] op = <<">">> -> "GT"   [] op = <<">", "=">> -> "GE"
      [] op = <<"&", "&">> -> "AND"  [] op = <<"|", "|">> -> "OR"
      [] OTHER -> "NOP"

RECURSIVE gen(_, _), genAll(_, _, _), genArgs(_, _, _)

\* generate_expression
generate_expression(G, expr) == IF expr # Null THEN gen(G, expr) ELSE G

\* for (node : nodes) if (node) node->accept(*this);
genAll(G, nodes, i) ==
    IF i > Len(nodes) THEN G
    ELSE genAll(IF nodes[i] # Null THEN gen(G, nodes[i]) ELSE G, nodes, i + 1)

\* the loop of generate_function_call, from the last argument to the first
genArgs(G, args, i) ==
    IF i < 1 THEN G
    ELSE LET G1 == generate_expression(G, args[i])
         IN  genArgs(emit(G1, "PARAM", <<>>, G1.last_expression_result, <<>>), args, i - 1)

generate_function_call(G, call) ==
    LET G1 == genArgs(G, call.args, Len(call.args))
        res == new_temp(G1)
        G2 == [G1 EXCEPT !.temp_counter = @ + 1]
        G3 == emit(G2, "CALL", res, call.name, to_string(Len(call.args)))
    IN  [G3 EXCEPT !.last_expression_result = res]

generate_array_access(G, var) ==
    LET G1 == generate_expression(G, var.index)
        res == new_temp(G1)
        G2 == [G1 EXCEPT !.temp_counter = @ + 1]
        G3 == emit(G2, "ARRAY_ACCESS", res, var.name, G1.last_expression_result)
    IN  [G3 EXCEPT !.last_expression_result = res]

generate_assignment(G, assignment) ==
    LET G1 == generate_expression(G, assignment.right)
        rhs_result == G1.last_expression_result
        var == assignment.left
    IN  IF var.kind # "Variable" THEN G1
        ELSE IF var.index # Null
        THEN LET G2 == generate_expression(G1, var.index)
                 G3 == emit(G2, "ARRAY_ASSIGN", var.name, G2.last_expression_result,
                            rhs_result)
             IN  [G3 EXCEPT !.last_expression_result = var.name]
        ELSE [emit(G1, "ASSIGN", var.name, rhs_result, <<>>)
                EXCEPT !.last_expression_result = var.name]

generate_binary_operation(G, binary_op) ==
    LET G1 == generate_expression(G, binary_op.left)
        G2 == generate_expression(G1, binary_op.right)
        res == new_temp(G2)
        G3 == [G2 EXCEPT !.temp_counter = @ + 1]
        G4 == emit(G3, BinaryOpCode(binary_op.op), res, G1.last_expression_result,
                   G2.last_expression_result)
    IN  [G4 EXCEPT !.last_expression_result = res]

genUnaryOp(G, node) ==
    IF node.operand = Null THEN G
    ELSE LET G1 == generate_expression(G, node.operand)
             res == new_temp(G1)
             G2 == [G1 EXCEPT !.temp_counter = @ + 1]
             G3 == IF node.op = <<"-">>
                   THEN emit(G2, "SUB", res, <<"0">>, G1.last_expression_result)
                   ELSE IF node.op = <<"!">>
                   THEN emit(G2, "NOT", res, G1.last_expression_result, <<>>)
                   ELSE G2
         IN  [G3 EXCEPT !.last_expression_result = res]

genFunDeclaration(G, node) ==
    LET G1 == emit(G, "FUNCTION_BEGIN", node.name, <<>>, <<>>)
        G2 == IF node.body # Null THEN gen(G1, node.body) ELSE G1
    IN  emit(G2, "FUNCTION_END", node.name, <<>>, <<>>)

genIfStmt(G, node) ==
    LET else_label == new_label(G)
        end_label  == new_label([G EXCEPT !.label_counter = @ + 1])
        G0 == [G EXCEPT !.label_counter = @ + 2]
        G1 == IF node.cond # Null
              THEN LET Gc == generate_expression(G0, node.cond)
                   IN  emit(Gc, "IF_FALSE", else_label, Gc.last_expression_result, <<>>)
              ELSE G0
        G2 == IF node.thenStmt # Null THEN gen(G1, node.thenStmt) ELSE G1
        G3 == IF node.elseStmt # Null THEN emit(G2, "GOTO", end_label, <<>>, <<>>) ELSE G2
        G4 == emit(G3, "LABEL", else_label, <<>>, <<>>)
        G5 == IF node.elseStmt # Null THEN gen(G4, node.elseStmt) ELSE G4
    IN  IF node.elseStmt # Null THEN emit(G5, "LABEL", end_label, <<>>, <<>>) ELSE G5

genWhileStmt(G, node) ==
    LET loop_label == new_label(G)
        end_label  == new_label([G EXCEPT !.label_counter = @ + 1])
        G0 == emit([G EXCEPT !.label_counter = @ + 2], "LABEL", loop_label, <<>>, <<>>)
        G1 == IF node.cond # Null
              THEN LET Gc == generate_expression(G0, node.cond)
                   IN  emit(Gc, "IF_FALSE", end_label, Gc.last_expression_result, <<>>)
              ELSE G0
        G2 == IF node.body # Null THEN gen(G1, node.body) ELSE G1
        G3 == emit(G2, "GOTO", loop_label, <<>>, <<>>)
    IN  emit(G3, "LABEL", end_label, <<>>, <<>>)

genReturnStmt(G, node) ==
    IF node.expr # Null
    THEN LET G1 == generate_expression(G, node.expr)
         IN  emit(G1, "RETURN", <<>>, G1.last_expression_result, <<>>)
    ELSE emit(G, "RETURN", <<>>, <<>>, <<>>)

\* node->accept(*this) on the IR generator
gen(G, node) ==
    CASE node.kind = "Program"        -> genAll(G, node.declarations, 1)
      [] node.kind = "FunDeclaration" -> genFunDeclaration(G, node)
      [] node.kind = "CompoundStmt"   ->
            genAll(genAll(G, node.locals, 1), node.statements, 1)
      [] node.kind = "IfStmt"         -> genIfStmt(G, node)
      [] node.kind = "WhileStmt"      -> genWhileStmt(G, node)
      [] node.kind = "ReturnStmt"     -> genReturnStmt(G, node)
      [] node.kind = "BinaryOp"       ->
            IF node.op = <<"=">> THEN generate_assignment(G, node)
            ELSE generate_binary_operation(G, node)
      [] node.kind = "UnaryOp"        -> genUnaryOp(G, node)
      [] node.kind = "Variable"       ->
            IF node.index # Null THEN generate_array_access(G, node)
            ELSE [G EXCEPT !.last_expression_result = node.name]
      [] node.kind = "Call"           -> generate_function_call(G, node)
      [] node.kind = "Number"         ->
            [G EXCEPT !.last_expression_result = to_string(node.value)]
      [] OTHER                        -> G

\* IRGenerator::clear leaving the counters as they are
clear_keeping_counters(G) ==
    [G EXCEPT !.instructions = <<>>, !.last_expression_result = <<>>]

\* IRGenerator::clear
clear(G) ==
    [G EXCEPT !.instructions = <<>>, !.temp_counter = 0, !.label_counter = 0,
              !.last_expression_result = <<>>]

\* IRGenerator::generate on the generator object G: the object afterwards
generate_on(G, prog) == gen(clear(G), prog)

\* IRGenerator::generate on a freshly constructed generator: the list returned
generate(prog) == generate_on(NewIRGenerator, prog).instructions

-----------------------------------------------------------------------------
(* Control flow graph (cfg.cpp).  A BasicBlock* is the position of the      *)
(* block in blocks, nullptr is 0; positions in the instruction list count   *)
(* from 1.                                                                  *)

BasicBlock(id) ==
    [id |-> id, instructions |-> <<>>, predecessors |-> <<>>,
     successors |-> <<>>, label |-> <<>>]

\* ControlFlowGraph::ControlFlowGraph, and ControlFlowGraph::clear
NewControlFlowGraph ==
    [blocks |-> <<>>, label_to_block |-> <<>>, entry_block |-> 0,
     exit_block |-> 0, next_block_id |-> 0]

\* BasicBlock::get_last_instruction: Null for nullptr
get_last_instruction(block) ==
    IF block.instructions = <<>> THEN Null
    ELSE block.instructions[Len(block.instructions)]

\* ControlFlowGraph::create_block: the graph afterwards; the block is the last
create_block(C) ==
    [C EXCEPT !.blocks = Append(@, BasicBlock(C.next_block_id)),
              !.next_block_id = @ + 1]

\* the set block_starts of identify_basic_blocks
block_starts(instructions) ==
    {1} \cup {i \in 1..Len(instructions) : is_label(instructions[i])}
        \cup {i + 1 : i \in {j \in 1..Len(instructions) :
                                /\ is_branch(instructions[j])
                                /\ j + 1 <= Len(instructions)}}
        \cup {i + 1 : i \in {j \in 1..Len(instructions) :
                                /\ instructions[j].op \in {"FUNCTION_BEGIN", "FUNCTION_END"}
                                /\ j + 1 <= Len(instructions)}}

\* the elements of a set of numbers in increasing order
RECURSIVE SortedSeq(_)
SortedSeq(S) ==
    IF S = {} THEN <<>>
    ELSE LET m == CHOOSE x \in S : \A y \in S : x <= y
         IN  <<m>> \o SortedSeq(S \ {m})

\* the loop over starts in identify_basic_blocks, from the i-th start on
RECURSIVE make_blocks(_, _, _, _)
make_blocks(C, instructions, starts, i) ==
    IF i > Len(starts) THEN C
    ELSE LET start == starts[i]
             end   == IF i + 1 <= Len(starts) THEN starts[i + 1]
                      ELSE Len(instructions) + 1
             first == instructions[start]
             block == [BasicBlock(C.next_block_id) EXCEPT
                          !.instructions = SubSeq(instructions, start, end - 1),
                          !.label = IF is_label(first) THEN first.result ELSE <<>>]
             C1    == [C EXCEPT
                          !.next_block_id = @ + 1,
                          !.blocks = Append(@, block),
                          !.label_to_block =
                              IF is_label(first)
                              THEN MapPut(@, first.result, Len(C.blocks) + 1)
                              ELSE @,
                          !.entry_block = IF i = 1 THEN Len(C.blocks) + 1 ELSE @]
         IN  make_blocks(C1, instructions, starts, i + 1)

\* ControlFlowGraph::identify_basic_blocks
identify_basic_blocks(C, instructions) ==
    LET C1   == make_blocks(C, instructions, SortedSeq(block_starts(instructions)), 1)
        last == IF C1.blocks = <<>> THEN Null
                ELSE get_last_instruction(C1.blocks[Len(C1.blocks)])
    IN  IF C1.blocks # <<>> /\ last # Null /\ last.op # "RETURN"
        THEN [create_block(C1) EXCEPT !.exit_block = Len(C1.blocks) + 1]
        ELSE C1

\* ControlFlowGraph::find_block_by_label
find_block_by_label(C, label) ==
    IF label \in DOMAIN C.label_to_block THEN C.label_to_block[label] ELSE 0

\* current->add_successor(target); target->add_predecessor(current)
add_edge(C, from, to) ==
    LET C1 == [C EXCEPT !.blocks[from].successors = Append(@, to)]
    IN  [C1 EXCEPT !.blocks[to].predecessors = Append(@, from)]

\* the body of the loop of build_control_flow_edges for blocks[i]
edges_of_block(C, i) ==
    LET last   == get_last_instruction(C.blocks[i])
        target == find_block_by_label(C, last.result)
        jump   == IF target # 0 THEN add_edge(C, i, target) ELSE C
        fall(D) == IF i + 1 <= Len(D.blocks) THEN add_edge(D, i, i + 1) ELSE D
    IN  IF last = Null THEN C
        ELSE IF last.op = "GOTO" THEN jump
        ELSE IF last.op \in {"IF_FALSE", "IF_TRUE"} THEN fall(jump)
        ELSE IF last.op = "RETURN"
        THEN IF C.exit_block # 0 THEN add_edge(C, i, C.exit_block) ELSE C
        ELSE fall(C)

\* ControlFlowGraph::build_control_flow_edges, from blocks[i] on
RECURSIVE build_control_flow_edges(_, _)
build_control_flow_edges(C, i) ==
    IF i > Len(C.blocks) THEN C
    ELSE build_control_flow_edges(edges_of_block(C, i), i + 1)

\* ControlFlowGraph::build_from_ir: the graph afterwards
build_from_ir(C, instructions) ==
    IF instructions = <<>> THEN NewControlFlowGraph
    ELSE build_control_flow_edges(
             identify_basic_blocks(NewControlFlowGraph, instructions), 1)

-----------------------------------------------------------------------------
(* Assembly generator (assembly-generator.cpp): the addressing of operands. *)
(* The two static variables of get_memory_location are the record           *)
(* [var_offsets, next_offset]; they belong to the process, not to an        *)
(* AssemblyGenerator object.  A use is the name handed to                   *)
(* get_memory_location and the offset in the string it returned.            *)

\* the values the static variables are initialized with
NewMemoryLocations == [var_offsets |-> <<>>, next_offset |-> -8]

\* AssemblyGenerator::get_memory_location: [offset, statics]
get_memory_location(M, var) ==
    IF var \notin DOMAIN M.var_offsets
    THEN [offset |-> M.next_offset,
          statics |-> [var_offsets |-> MapPut(M.var_offsets, var, M.next_offset),
                       next_offset |-> M.next_offset - 8]]
    ELSE [offset |-> M.var_offsets[var], statics |-> M]

\* the test of get_operand for a constant
operand_is_constant(operand) ==
    isdigit(operand[1]) \/ (operand[1] = "-" /\ Len(operand) > 1)

\* get_operand reaches get_memory_location for this operand
addressed(operand) == operand # <<>> /\ ~operand_is_constant(operand)

\* the names one instruction hands to get_memory_location, in the order of
\* the calls; the result operand and the array name go there directly, the
\* others through get_operand
memory_operands(instr) ==
    LET through_get_operand(operand) ==
            IF addressed(operand) THEN <<operand>> ELSE <<>>
    IN  IF instr.op \in {"ADD", "SUB", "MUL", "DIV", "MOD",
                         "EQ", "NE", "LT", "LE", "GT", "GE"}
        THEN through_get_operand(instr.arg1) \o through_get_operand(instr.arg2)
                 \o <<instr.result>>
        ELSE IF instr.op \in {"ASSIGN", "COPY"}
        THEN through_get_operand(instr.arg1) \o <<instr.result>>
        ELSE IF instr.op \in {"IF_FALSE", "IF_TRUE", "PARAM"}
        THEN through_get_operand(instr.arg1)
        ELSE IF instr.op = "CALL"
        THEN IF instr.result # <<>> THEN <<instr.result>> ELSE <<>>
        ELSE IF instr.op = "RETURN"
        THEN through_get_operand(instr.arg1)
        ELSE IF instr.op = "ARRAY_ACCESS"
        THEN <<instr.arg1>> \o through_get_operand(instr.arg2) \o <<instr.result>>
        ELSE IF instr.op = "ARRAY_ASSIGN"
        THEN <<instr.result>> \o through_get_operand(instr.arg1)
                 \o through_get_operand(instr.arg2)
        ELSE <<>>

\* the names a whole generate_from_ir hands to get_memory_location
RECURSIVE memory_operands_of(_)
memory_operands_of(instructions) ==
    IF instructions = <<>> THEN <<>>
    ELSE memory_operands(Head(instructions)) \o memory_operands_of(Tail(instructions))

\* the calls of get_memory_location for names[i..]: [uses, statics]
RECURSIVE address_all(_, _, _, _)
address_all(M, names, i, uses) ==
    IF i > Len(names) THEN [uses |-> uses, statics |-> M]
    ELSE LET r == get_memory_location(M, names[i])
         IN  address_all(r.statics, names, i + 1,
                         Append(uses, [name |-> names[i], offset |-> r.offset]))

\* AssemblyGenerator::generate_from_ir: [uses, statics]
generate_from_ir(M, instructions) ==
    address_all(M, memory_operands_of(instructions), 1, <<>>)

-----------------------------------------------------------------------------
(* The orders of the blocks (cfg.cpp).  The walk keeps the set of visited   *)
(* blocks and the vector of the blocks it has left: W = [visited, result].  *)

RECURSIVE topological_sort_helper(_, _, _)
RECURSIVE visit_successors(_, _, _, _)

\* ControlFlowGraph::topological_sort_helper: the block is marked, the
\* successors not yet visited are walked in the order of the vector, and the
\* block is pushed when the walk leaves it
topological_sort_helper(C, block, W) ==
    \* result.push_back(block)
    [visit_successors(C, C.blocks[block].successors, 1,
                      [W EXCEPT !.visited = @ \cup {block}])
        EXCEPT !.result = Append(@, block)]

\* the loop of topological_sort_helper over block->successors, from the i-th
visit_successors(C, succs, i, W) ==
    IF i > Len(succs) THEN W
    ELSE visit_successors(C, succs, i + 1,
             IF succs[i] \in W.visited THEN W
             ELSE topological_sort_helper(C, succs[i], W))

\* ControlFlowGraph::get_topological_order
get_topological_order(C) ==
    IF C.entry_block # 0
    THEN topological_sort_helper(C, C.entry_block,
                                 [visited |-> {}, result |-> <<>>]).result
    ELSE <<>>

\* ControlFlowGraph::get_reverse_postorder
get_reverse_postorder(C) == Reverse(get_topological_order(C))

-----------------------------------------------------------------------------
(* RegisterAllocator (register-allocator.cpp).  The object is the record   *)
(* R = [temp_to_register, used_registers, available_registers,             *)
(* spilled_variables, next_spill_offset]: the two maps are functions, the  *)
(* std::set is a set and the std::queue a sequence, front first.  An       *)
(* operation that returns a register returns [reg, R].                     *)

\* caller_saved_regs and callee_saved_regs of initialize_registers
CallerSavedRegs == <<"rax", "rcx", "rdx", "rsi", "rdi", "r8", "r9", "r10", "r11">>
CalleeSavedRegs == <<"rbx", "r12", "r13", "r14", "r15">>

\* RegisterAllocator::initialize_registers: the queue it fills
initialize_registers ==
    SelectSeq(CallerSavedRegs, LAMBDA reg : reg # "rax") \o CalleeSavedRegs

\* RegisterAllocator::RegisterAllocator, and RegisterAllocator::reset
NewRegisterAllocator ==
    [temp_to_register |-> <<>>, used_registers |-> {},
     available_registers |-> initialize_registers,
     spilled_variables |-> <<>>, next_spill_offset |-> -16]

\* the names of registers and temporaries in the order of std::string's
\* operator<, which std::set and std::map iterate in
StringOrder ==
    <<"r10", "r11", "r12", "r13", "r14", "r15", "r8", "r9", "rbx", "rcx",
      "rdi", "rdx", "rsi", "t0", "t1", "t2">>

\* *S.begin() of a std::set or of the keys of a std::map
Begin(S) ==
    StringOrder[CHOOSE i \in 1..Len(StringOrder) :
                   /\ StringOrder[i] \in S
                   /\ \A j \in 1..(i - 1) : StringOrder[j] \notin S]

\* the temporaries the map binds to reg
bound_to(R, reg) ==
    {t \in DOMAIN R.temp_to_register : R.temp_to_register[t] = reg}

\* RegisterAllocator::free_register
free_register(R, reg) ==
    IF reg \in R.used_registers
    THEN [R EXCEPT
            !.used_registers = @ \ {reg},
            !.available_registers = Append(@, reg),
            \* the first entry of the map that holds reg is erased
            !.temp_to_register =
                IF bound_to(R, reg) = {} THEN @
                ELSE MapErase(@, Begin(bound_to(R, reg)))]
    ELSE R

\* RegisterAllocator::free_register_for_temp
free_register_for_temp(R, temp) ==
    IF temp \in DOMAIN R.temp_to_register
    THEN free_register(R, R.temp_to_register[temp])
    ELSE R

\* RegisterAllocator::spill_to_memory
spill_to_memory(R, temp) ==
    IF temp \in DOMAIN R.temp_to_register
    THEN free_register(
             [R EXCEPT !.spilled_variables = MapPut(@, temp, R.next_spill_offset),
                       !.next_spill_offset = @ - 8],
             R.temp_to_register[temp])
    ELSE R

\* RegisterAllocator::select_register_to_spill; "throw" when no register is
\* in use
select_register_to_spill(R) ==
    IF R.used_registers # {} THEN Begin(R.used_registers) ELSE "throw"

\* RegisterAllocator::spill_register
spill_register(R, reg) ==
    IF bound_to(R, reg) # {}
    THEN spill_to_memory(R, Begin(bound_to(R, reg)))
    ELSE R

\* RegisterAllocator::allocate_register()
allocate_register(R) ==
    IF R.available_registers = <<>>
    THEN \* reg_to_spill is spilled and returned
         IF select_register_to_spill(R) = "throw"
         THEN [reg |-> "throw", R |-> R]
         ELSE [reg |-> select_register_to_spill(R),
               R |-> spill_register(R, select_register_to_spill(R))]
    ELSE [reg |-> Head(R.available_registers),
          R |-> [R EXCEPT !.available_registers = Tail(@),
                          !.used_registers =
                              @ \cup {Head(R.available_registers)}]]

\* RegisterAllocator::allocate_register(temp)
allocate_register_for(R, temp) ==
    IF temp \in DOMAIN R.temp_to_register
    THEN [reg |-> R.temp_to_register[temp], R |-> R]
    ELSE IF allocate_register(R).reg = "throw"
         THEN allocate_register(R)
         ELSE [reg |-> allocate_register(R).reg,
               R |-> [allocate_register(R).R EXCEPT
                         !.temp_to_register =
                             MapPut(@, temp, allocate_register(R).reg)]]

\* the allocator after n calls of allocate_register() on R
RECURSIVE allocate_registers(_, _)
allocate_registers(R, n) ==
    IF n = 0 THEN R ELSE allocate_registers(allocate_register(R).R, n - 1)

-----------------------------------------------------------------------------
(* The registers of a translated instruction (assembly-generator.cpp).     *)
(* Each case of generate_from_ir takes its registers with                  *)
(* allocate_register() when it starts and frees them when it ends;         *)
(* T = [regs, R] is the sequence of the registers taken and the allocator. *)

\* one more `register_allocator->allocate_register()`
take_register(T) ==
    [regs |-> Append(T.regs, allocate_register(T.R).reg),
     R    |-> allocate_register(T.R).R]

RECURSIVE take_registers(_, _)
take_registers(R, n) ==
    IF n = 0 THEN [regs |-> <<>>, R |-> R]
    ELSE take_register(take_registers(R, n - 1))

\* `register_allocator->free_register(reg)` for the registers of regs in turn
RECURSIVE free_registers(_, _)
free_registers(R, regs) ==
    IF regs = <<>> THEN R
    ELSE free_registers(free_register(R, Head(regs)), Tail(regs))

\* the function the switch of generate_from_ir gives the instruction to;
\* "default" is the branch that emits the comment "Unhandled IR instruction"
translated_by(instr) ==
    CASE instr.op \in {"ADD", "SUB", "MUL", "DIV", "MOD"} -> "generate_arithmetic"
      [] instr.op \in {"EQ", "NE", "LT", "LE", "GT", "GE"} -> "generate_comparison"
      [] instr.op \in {"ASSIGN", "COPY"} -> "generate_assignment"
      [] instr.op \in {"GOTO", "IF_FALSE", "IF_TRUE"} -> "generate_branch"
      [] instr.op = "CALL" -> "generate_function_call"
      [] instr.op = "RETURN" -> "generate_return"
      [] instr.op \in {"ARRAY_ACCESS", "ARRAY_ASSIGN"} -> "generate_array_access"
      [] instr.op = "LABEL" -> "emit_label"
      [] instr.op = "FUNCTION_BEGIN" -> "process_function_begin"
      [] instr.op = "FUNCTION_END" -> "process_function_end"
      [] instr.op = "PARAM" -> "PARAM"
      [] OTHER -> "default"

\* the number of calls of allocate_register() the translation of instr makes
registers_taken(instr) ==
    CASE translated_by(instr) \in {"generate_arithmetic", "generate_comparison"} -> 2
      [] translated_by(instr) = "generate_array_access" ->
             IF instr.op = "ARRAY_ASSIGN" THEN 3 ELSE 2
      [] translated_by(instr) \in {"generate_assignment", "PARAM"} -> 1
      [] translated_by(instr) = "generate_branch" ->
             IF instr.op = "GOTO" THEN 0 ELSE 1
      [] translated_by(instr) = "generate_return" ->
             IF instr.arg1 # <<>> THEN 1 ELSE 0
      [] OTHER -> 0

\* the order the translation frees its registers in: generate_array_access
\* frees value_reg before base_reg and index_reg
freed_in_order(instr, regs) ==
    IF instr.op = "ARRAY_ASSIGN" THEN <<regs[3], regs[1], regs[2]>> ELSE regs

\* the registers of the translation of instr and the allocator after it
translate_instruction(R, instr) ==
    [regs |-> take_registers(R, registers_taken(instr)).regs,
     R    |-> free_registers(
                 take_registers(R, registers_taken(instr)).R,
                 freed_in_order(instr,
                     take_registers(R, registers_taken(instr)).regs))]

\* the translation of instr ends with a store to
\* get_memory_location(instr.result)
stores_result(instr) ==
    CASE translated_by(instr) \in {"generate_arithmetic", "generate_comparison",
                                  "generate_assignment"} -> TRUE
      [] translated_by(instr) = "generate_array_access" -> instr.op = "ARRAY_ACCESS"
      [] translated_by(instr) = "generate_function_call" -> instr.result # <<>>
      [] OTHER -> FALSE

-----------------------------------------------------------------------------
(* Sources.  Programs are built from these top-level snippets, joined by a  *)
(* space.                                                                   *)

\* int main(void){return 0;}
SrcValidMain ==
    <<"i", "n", "t", " ", "m", "a", "i", "n", "(", "v", "o", "i", "d", ")",
      "{", "r", "e", "t", "u", "r", "n", " ", "0", ";", "}">>

\* void main(void){return;}
SrcVoidMain ==
    <<"v", "o", "i", "d", " ", "m", "a", "i", "n", "(", "v", "o", "i", "d",
      ")", "{", "r", "e", "t", "u", "r", "n", ";", "}">>

\* int main(int a){return 0;}
SrcMainWithParam ==
    <<"i", "n", "t", " ", "m", "a", "i", "n", "(", "i", "n", "t", " ", "a",
      ")", "{", "r", "e", "t", "u", "r", "n", " ", "0", ";", "}">>

\* int add(int a,int b){return a+b;}
SrcAdd ==
    <<"i", "n", "t", " ", "a", "d", "d", "(", "i", "n", "t", " ", "a", ",",
      "i", "n", "t", " ", "b", ")", "{", "r", "e", "t", "u", "r", "n", " ",
      "a", "+", "b", ";", "}">>

\* int main(void){ return add(2,3); }
SrcMainCallsAdd ==
    <<"i", "n", "t", " ", "m", "a", "i", "n", "(", "v", "o", "i", "d", ")",
      "{", " ", "r", "e", "t", "u", "r", "n", " ", "a", "d", "d", "(", "2",
      ",", "3", ")", ";", " ", "}">>

\* int f(int a){ return 0; }
SrcF ==
    <<"i", "n", "t", " ", "f", "(", "i", "n", "t", " ", "a", ")", "{", " ",
      "r", "e", "t", "u", "r", "n", " ", "0", ";", " ", "}">>

\* int main(void){ return f(); }
SrcMainCallsF0 ==
    <<"i", "n", "t", " ", "m", "a", "i", "n", "(", "v", "o", "i", "d", ")",
      "{", " ", "r", "e", "t", "u", "r", "n", " ", "f", "(", ")", ";", " ",
      "}">>

\* int main(void){int x; int v[2]; x = v; return 0;}
SrcMainAssignsArray ==
    <<"i", "n", "t", " ", "m", "a", "i", "n", "(", "v", "o", "i", "d", ")",
      "{", "i", "n", "t", " ", "x", ";", " ", "i", "n", "t", " ", "v", "[",
      "2", "]", ";", " ", "x", " ", "=", " ", "v", ";", " ", "r", "e", "t",
      "u", "r", "n", " ", "0", ";", "}">>

\* void g(void){return;}
SrcG ==
    <<"v", "o", "i", "d", " ", "g", "(", "v", "o", "i", "d", ")", "{", "r",
      "e", "t", "u", "r", "n", ";", "}">>

\* int main(void){int x; x = g(); return 0;}
SrcMainAssignsVoid ==
    <<"i", "n", "t", " ", "m", "a", "i", "n", "(", "v", "o", "i", "d", ")",
      "{", "i", "n", "t", " ", "x", ";", " ", "x", " ", "=", " ", "g", "(",
      ")", ";", " ", "r", "e", "t", "u", "r", "n", " ", "0", ";", "}">>

\* int main(void){int x; x = 5; return x + 1;}
SrcMainAssignsInt ==
    <<"i", "n", "t", " ", "m", "a", "i", "n", "(", "v", "o", "i", "d", ")",
      "{", "i", "n", "t", " ", "x", ";", " ", "x", " ", "=", " ", "5", ";",
      " ", "r", "e", "t", "u", "r", "n", " ", "x", " ", "+", " ", "1", ";",
      "}">>

\* int main(void){int x; x = input(); output(x); return 0;}
SrcMainBuiltins ==
    <<"i", "n", "t", " ", "m", "a", "i", "n", "(", "v", "o", "i", "d", ")",
      "{", "i", "n", "t", " ", "x", ";", " ", "x", " ", "=", " ", "i", "n",
      "p", "u", "t", "(", ")", ";", " ", "o", "u", "t", "p", "u", "t", "(",
      "x", ")", ";", " ", "r", "e", "t", "u", "r", "n", " ", "0", ";", "}">>

\* int main(void){int a[2]; a[0] = 1; return 0;}
SrcMainIndexedAssign ==
    <<"i", "n", "t", " ", "m", "a", "i", "n", "(", "v", "o", "i", "d", ")",
      "{", "i", "n", "t", " ", "a", "[", "2", "]", ";", " ", "a", "[", "0",
      "]", " ", "=", " ", "1", ";", " ", "r", "e", "t", "u", "r", "n", " ",
      "0", ";", "}">>

\* int x;
SrcGlobalX ==
    <<"i", "n", "t", " ", "x", ";">>

\* int ;
SrcSyntaxError ==
    <<"i", "n", "t", " ", ";">>

\* $
SrcBadChar ==
    <<"$">>

\* the sources made of at most n snippets of S
RECURSIVE SourcesOf(_, _)
SourcesOf(S, n) ==
    IF n = 0 THEN {<<>>}
    ELSE LET shorter == SourcesOf(S, n - 1)
         IN  shorter \cup {p \o <<" ">> \o t : p \in shorter, t \in S}

SemSnippets ==
    {SrcValidMain, SrcVoidMain, SrcMainWithParam, SrcAdd, SrcMainCallsAdd, SrcF,
     SrcMainCallsF0, SrcMainAssignsArray, SrcG, SrcMainAssignsVoid,
     SrcMainBuiltins, SrcMainIndexedAssign}

SemSources == SourcesOf(SemSnippets, MaxDecls)

DriverSnippets ==
    {SrcValidMain, SrcMainAssignsInt, SrcGlobalX, SrcSyntaxError, SrcBadChar}

DriverSources == SourcesOf(DriverSnippets, MaxSnippets)

-----------------------------------------------------------------------------
(* The state of the components a specification does not exercise: each is  *)
(* as its constructor leaves it.                                            *)

DriverIdle ==
    /\ source = <<>> /\ options = Null /\ tokens = <<>> /\ ast = Null
    /\ syntax_errors = <<>> /\ error_messages = <<>> /\ ir_code = <<>>
    /\ phases = <<>>

SemIdle == program = Null /\ analyzer = NewSemanticAnalyzer /\ analyzed = 0

OptIdle == ir_in = <<>> /\ ir_out = <<>> /\ ir_prev = <<>> /\ opt_runs = 0

GenIdle == generator = NewIRGenerator /\ generated = <<>>

CfgIdle == cfg = NewControlFlowGraph

AsmIdle ==
    /\ var_offsets = NewMemoryLocations.var_offsets
    /\ next_offset = NewMemoryLocations.next_offset
    /\ asm_uses = <<>>

\* no call made yet
NoCall == [name |-> "none", count |-> 0]

MoreIdle ==
    /\ topo_order = <<>>
    /\ allocator = NewRegisterAllocator
    /\ emitted = <<>>
    /\ symtab = <<EmptyScope>>
    /\ last_call = NoCall

AuxIdle ==
    /\ GenIdle /\ CfgIdle /\ AsmIdle
    /\ current = 0 /\ pass = "none" /\ valuation = <<>>
    /\ MoreIdle

-----------------------------------------------------------------------------
(* SpecSem: the fixture of the analyzer tests.  parseProgram(source) runs   *)
(* the lexer and the parser, then a freshly constructed SemanticAnalyzer    *)
(* analyzes the Program.                                                    *)

InitSem ==
    /\ source \in SemSources
    /\ tokens = <<>>
    /\ program = Null
    /\ syntax_errors = <<>>
    /\ analyzer = NewSemanticAnalyzer
    /\ analyzed = 0
    /\ options = Null /\ pc = "parse" /\ ast = Null /\ error_messages = <<>>
    /\ ir_code = <<>> /\ phases = <<>> /\ result = "none"
    /\ ir_in = <<>> /\ ir_out = <<>> /\ ir_prev = <<>> /\ opt_runs = 0
    /\ AuxIdle

\* SemanticAnalyzerTest::parseProgram
ParseProgram ==
    /\ pc = "parse"
    /\ \E t \in {tokenize(source)} :
          /\ t.ok
          /\ tokens' = t.tokens
          /\ \E p \in {parse_program(t.tokens)} :
                /\ program' = p.node
                /\ syntax_errors' = p.errors
    /\ pc' = "analyze"
    /\ UNCHANGED <<source, options, ast, error_messages, ir_code, phases, result,
                   analyzer, analyzed, optVars, auxVars>>

\* analyzer.analyze(*ast)
Analyze ==
    /\ pc = "analyze"
    /\ analyzer' = analyze(analyzer, program)
    /\ analyzed' = analyzed + 1
    /\ pc' = "done"
    /\ UNCHANGED <<source, options, tokens, ast, syntax_errors, error_messages,
                   ir_code, phases, result, program, optVars, auxVars>>

NextSem == ParseProgram \/ Analyze

SpecSem == InitSem /\ [][NextSem]_vars

-----------------------------------------------------------------------------
(* SpecDriver: CompilerDriver::compile_from_source on a freshly constructed *)
(* driver (compiler-driver.cpp).  One action per run_* phase; phases is the *)
(* record of the phases run, each with what it returned.  The file system,  *)
(* `as` and `ld` are the environment.                                       *)

OptLevels     == {"O0", "O1"}
OutputFormats == {"ASSEMBLY", "EXECUTABLE"}

InitDriver ==
    /\ source \in DriverSources
    /\ options \in [opt_level : OptLevels, output_format : OutputFormats]
    /\ pc = "compile_from_source"
    /\ tokens = <<>>
    /\ ast = Null
    /\ syntax_errors = <<>>
    /\ error_messages = <<>>
    /\ ir_code = <<>>
    /\ phases = <<>>
    /\ result = "none"
    /\ analyzer = NewSemanticAnalyzer
    /\ program = Null /\ analyzed = 0
    /\ ir_in = <<>> /\ ir_out = <<>> /\ ir_prev = <<>> /\ opt_runs = 0
    /\ AuxIdle

\* a phase returned true: compile_from_source goes on to the next one
PhaseSucceeds(name, next) ==
    /\ phases' = Append(phases, [name |-> name, ok |-> TRUE])
    /\ pc' = next
    /\ UNCHANGED <<error_messages, result, auxVars>>

\* a phase pushed msgs and returned false: `if (!run_...()) return false;`
PhaseFails(name, msgs) ==
    /\ phases' = Append(phases, [name |-> name, ok |-> FALSE])
    /\ error_messages' = error_messages \o msgs
    /\ pc' = "done"
    /\ result' = "false"

\* SemanticError::format_error
format_error(error) ==
    <<"Semantic Error at line ", 0, ", column ", 0, ": ", error.message>>

\* run_semantic_analysis with the loop over get_errors() left out: the fault
\* the formula of C2 has to detect
SemanticErrorMessagesDropped(errors) == SubSeq(errors, 1, 0)

\* what run_semantic_analysis pushes when analyze returned false
SemanticErrorMessages(errors) ==
    [i \in 1..Len(errors) |-> format_error(errors[i])]

\* the entry of compile_from_source: clear_messages()
CompileFromSource ==
    /\ pc = "compile_from_source"
    /\ error_messages' = <<>>
    /\ pc' = "lexical_analysis"
    /\ UNCHANGED <<source, options, tokens, ast, syntax_errors, ir_code, phases,
                   result, semVars, optVars, auxVars>>

run_lexical_analysis ==
    /\ pc = "lexical_analysis"
    /\ \E t \in {tokenize(source)} :
          IF t.ok
          THEN /\ tokens' = t.tokens
               /\ PhaseSucceeds("lexical_analysis", "syntax_analysis")
          ELSE /\ tokens' = tokens
               /\ PhaseFails("lexical_analysis",
                             <<<<"Lexical analysis failed: ", "Unexpected character: ",
                                 t.bad>>>>)
    /\ UNCHANGED <<source, options, ast, syntax_errors, ir_code, semVars, optVars, auxVars>>

\* parse_program always returns a Program, so the phase returns true
run_syntax_analysis ==
    /\ pc = "syntax_analysis"
    /\ \E p \in {parse_program(tokens)} :
          /\ ast' = p.node
          /\ syntax_errors' = p.errors
    /\ PhaseSucceeds("syntax_analysis", "semantic_analysis")
    /\ UNCHANGED <<source, options, tokens, ir_code, semVars, optVars, auxVars>>

run_semantic_analysis ==
    /\ pc = "semantic_analysis"
    /\ \E A \in {analyze(analyzer, ast)} :
          /\ analyzer' = A
          /\ IF ~has_errors(A)
             THEN PhaseSucceeds("semantic_analysis", "ir_generation")
             ELSE PhaseFails("semantic_analysis", SemanticErrorMessages(A.errors))
    /\ UNCHANGED <<source, options, tokens, ast, syntax_errors, ir_code,
                   program, analyzed, optVars, auxVars>>

run_ir_generation ==
    /\ pc = "ir_generation"
    /\ ir_code' = generate(ast)
    /\ PhaseSucceeds("ir_generation", "optimization")
    /\ UNCHANGED <<source, options, tokens, ast, syntax_errors, semVars, optVars, auxVars>>

\* the IR is generated again and, from O1 on, optimized in a local copy
run_optimization ==
    /\ pc = "optimization"
    /\ \E code \in {generate(ast)} :
          /\ ir_code' = code
          /\ IF options.opt_level = "O1" /\ ~optimize(code).ok
             THEN PhaseFails("optimization", <<<<"Optimization failed: ", "stoi">>>>)
             ELSE PhaseSucceeds("optimization", "code_generation")
    /\ UNCHANGED <<source, options, tokens, ast, syntax_errors, semVars, optVars, auxVars>>

\* file_opens: whether AssemblyGenerator could open the assembly file
run_code_generation ==
    /\ pc = "code_generation"
    /\ \E code \in {generate(ast)}, file_opens \in BOOLEAN :
          /\ ir_code' = code
          /\ IF options.opt_level = "O1" /\ ~optimize(code).ok
             THEN PhaseFails("code_generation",
                             <<<<"Code generation failed: ", "stoi">>>>)
             ELSE IF ~file_opens
             THEN PhaseFails("code_generation",
                             <<<<"Code generation failed: ",
                                 "Failed to open output file: ">>>>)
             ELSE PhaseSucceeds("code_generation",
                                IF options.output_format = "EXECUTABLE"
                                THEN "assembly_and_linking" ELSE "copy_file")
    /\ UNCHANGED <<source, options, tokens, ast, syntax_errors, semVars, optVars, auxVars>>

\* as_result, ld_result: what std::system returned for `as` and for `ld`
run_assembly_and_linking ==
    /\ pc = "assembly_and_linking"
    /\ \E as_result \in {0, 1}, ld_result \in {0, 1} :
          IF as_result # 0
          THEN PhaseFails("assembly_and_linking", <<<<"Assembly failed">>>>)
          ELSE IF ld_result # 0
          THEN PhaseFails("assembly_and_linking", <<<<"Linking failed">>>>)
          ELSE /\ phases' = Append(phases, [name |-> "assembly_and_linking", ok |-> TRUE])
               /\ pc' = "done"
               /\ result' = "true"
               /\ UNCHANGED error_messages
    /\ UNCHANGED <<source, options, tokens, ast, syntax_errors, ir_code, semVars, optVars, auxVars>>

\* the else branch of phase 7: std::filesystem::copy_file, whose
\* filesystem_error nothing catches
copy_assembly_file ==
    /\ pc = "copy_file"
    /\ \E copied \in BOOLEAN :
          result' = IF copied THEN "true" ELSE "exception"
    /\ pc' = "done"
    /\ UNCHANGED <<source, options, tokens, ast, syntax_errors, error_messages,
                   ir_code, phases, semVars, optVars, auxVars>>

Next ==
    \/ CompileFromSource
    \/ run_lexical_analysis
    \/ run_syntax_analysis
    \/ run_semantic_analysis
    \/ run_ir_generation
    \/ run_optimization
    \/ run_code_generation
    \/ run_assembly_and_linking
    \/ copy_assembly_file

Spec == InitDriver /\ [][Next]_vars

-----------------------------------------------------------------------------
(* SpecOpt: IROptimizer::optimize applied to an IR list, and again to what  *)
(* it returned.  The lists are drawn from the instructions below; each      *)
(* instruction of the first list carries its position as line_number, a     *)
(* field optimize never assigns, which tells the instructions apart.        *)

V_x   == <<"x">>
V_t0  == <<"t", "0">>
V_t1  == <<"t", "1">>
V_f   == <<"f">>
V_L0  == <<"L", "0">>
\* a literal std::stoi cannot convert to int
V_big == <<"2", "1", "4", "7", "4", "8", "3", "6", "4", "8">>

IRCatalogue ==
    {IRInstruction("ASSIGN", V_x, <<"5">>, <<>>, 0),
     IRInstruction("ADD", V_t0, V_x, <<"1">>, 0),
     IRInstruction("RETURN", <<>>, V_t0, <<>>, 0),
     IRInstruction("ADD", V_t1, <<"2">>, <<"3">>, 0),
     IRInstruction("SUB", V_t0, V_x, <<"0">>, 0),
     IRInstruction("MUL", V_t1, V_t0, <<"0">>, 0),
     IRInstruction("COPY", V_x, V_t1, <<>>, 0),
     IRInstruction("CALL", V_t0, V_f, <<"1">>, 0),
     IRInstruction("IF_FALSE", V_L0, V_t1, <<>>, 0),
     IRInstruction("ADD", V_t1, V_big, <<"1">>, 0)}

\* the IR lists of at most MaxIR instructions, numbered by position
IRLists ==
    UNION {{[i \in 1..n |-> [L[i] EXCEPT !.line_number = i]]
            : L \in [1..n -> IRCatalogue]} : n \in 0..MaxIR}

InitOpt ==
    /\ ir_in \in IRLists
    /\ ir_out = ir_in
    /\ ir_prev = <<>>
    /\ opt_runs = 0
    /\ pc = "optimize"
    /\ result = "none"
    /\ source = <<>> /\ options = Null /\ tokens = <<>> /\ ast = Null
    /\ syntax_errors = <<>> /\ error_messages = <<>> /\ ir_code = <<>>
    /\ phases = <<>> /\ program = Null /\ analyzer = NewSemanticAnalyzer
    /\ analyzed = 0
    /\ AuxIdle

\* optimized = optimizer.optimize(optimized): the call returns
Optimize ==
    /\ pc = "optimize"
    /\ opt_runs < MaxOptRuns
    /\ \E o \in {optimize(ir_out)} :
          /\ o.ok
          /\ ir_out' = o.code
    /\ ir_prev' = ir_out
    /\ opt_runs' = opt_runs + 1
    /\ UNCHANGED <<driverVars, semVars, ir_in, auxVars>>

\* the call leaves by the exception of std::stoi
OptimizeThrows ==
    /\ pc = "optimize"
    /\ opt_runs < MaxOptRuns
    /\ ~optimize(ir_out).ok
    /\ pc' = "done"
    /\ result' = "exception"
    /\ UNCHANGED <<source, options, tokens, ast, syntax_errors, error_messages,
                   ir_code, phases, semVars, optVars, auxVars>>

NextOpt == Optimize \/ OptimizeThrows

SpecOpt == InitOpt /\ [][NextOpt]_vars

-----------------------------------------------------------------------------
(* SpecGen: one IRGenerator object on which generate is called again and    *)
(* again, on the Programs the parser returns for the sources below.         *)

\* int main(void){return add(1+2,3*4);}
SrcGenCallExprs ==
    <<"i", "n", "t", " ", "m", "a", "i", "n", "(", "v", "o", "i", "d", ")",
      "{", "r", "e", "t", "u", "r", "n", " ", "a", "d", "d", "(", "1", "+",
      "2", ",", "3", "*", "4", ")", ";", "}">>

\* int main(void){int x;x=0;while(x<3){x=x+1;}return x;}
SrcGenLoop ==
    <<"i", "n", "t", " ", "m", "a", "i", "n", "(", "v", "o", "i", "d", ")",
      "{", "i", "n", "t", " ", "x", ";", "x", "=", "0", ";", "w", "h", "i",
      "l", "e", "(", "x", "<", "3", ")", "{", "x", "=", "x", "+", "1", ";",
      "}", "r", "e", "t", "u", "r", "n", " ", "x", ";", "}">>

\* int g(int a){int x;x=5;x=a;return x+1;}
SrcGenReassign ==
    <<"i", "n", "t", " ", "g", "(", "i", "n", "t", " ", "a", ")", "{", "i",
      "n", "t", " ", "x", ";", "x", "=", "5", ";", "x", "=", "a", ";", "r",
      "e", "t", "u", "r", "n", " ", "x", "+", "1", ";", "}">>

\* int h(int a){int x;x=1;if(a<1){x=2;}return x;}
SrcGenIf ==
    <<"i", "n", "t", " ", "h", "(", "i", "n", "t", " ", "a", ")", "{", "i",
      "n", "t", " ", "x", ";", "x", "=", "1", ";", "i", "f", "(", "a", "<",
      "1", ")", "{", "x", "=", "2", ";", "}", "r", "e", "t", "u", "r", "n",
      " ", "x", ";", "}">>

\* int main(void){int x;x=0;return !x;}
SrcGenNot ==
    <<"i", "n", "t", " ", "m", "a", "i", "n", "(", "v", "o", "i", "d", ")",
      "{", "i", "n", "t", " ", "x", ";", "x", "=", "0", ";", "r", "e", "t",
      "u", "r", "n", " ", "!", "x", ";", "}">>

\* int main(void){int x;x=5;return -x;}
SrcGenNegate ==
    <<"i", "n", "t", " ", "m", "a", "i", "n", "(", "v", "o", "i", "d", ")",
      "{", "i", "n", "t", " ", "x", ";", "x", "=", "5", ";", "r", "e", "t",
      "u", "r", "n", " ", "-", "x", ";", "}">>

\* int main(void){return 1+2+3+4+5+6+7+8+9+10;}
SrcGenManyTemps ==
    <<"i", "n", "t", " ", "m", "a", "i", "n", "(", "v", "o", "i", "d", ")",
      "{", "r", "e", "t", "u", "r", "n", " ", "1", "+", "2", "+", "3", "+",
      "4", "+", "5", "+", "6", "+", "7", "+", "8", "+", "9", "+", "1", "0",
      ";", "}">>

GenSources ==
    {SrcValidMain, SrcMainCallsAdd, SrcGenCallExprs, SrcGenLoop, SrcGenReassign,
     SrcGenIf}

\* the Program the parser returns for a source
parseSource(src) == parse_program(tokenize(src).tokens).node

GenPrograms == {parseSource(src) : src \in GenSources}

InitGen ==
    /\ GenIdle
    /\ pc = "generate"
    /\ result = "none"
    /\ DriverIdle /\ SemIdle /\ OptIdle /\ CfgIdle /\ AsmIdle
    /\ current = 0 /\ pass = "none" /\ valuation = <<>>
    /\ MoreIdle

\* ir = generator.generate(*program)
Generate ==
    /\ pc = "generate"
    /\ Len(generated) < MaxGenRuns
    /\ \E prog \in GenPrograms :
          \E G \in {generate_on(generator, prog)} :
             /\ generator' = G
             /\ generated' = Append(generated,
                                    [program |-> prog, code |-> G.instructions])
    /\ UNCHANGED <<driverVars, semVars, optVars, cfg, current, asmVars, pass,
                   valuation,
                   moreVars>>

NextGen == Generate

SpecGen == InitGen /\ [][NextGen]_vars

-----------------------------------------------------------------------------
(* SpecCfg: ControlFlowGraph::build_from_ir on a freshly constructed graph, *)
(* as in IRTest.CFGConstruction.  The IR lists are those the generator      *)
(* returns for GenPrograms and the lists of at most MaxIR instructions      *)
(* drawn from the instructions below.                                       *)

V_L1 == <<"L", "1">>

CfgCatalogue ==
    {IRInstruction("FUNCTION_BEGIN", V_f, <<>>, <<>>, 0),
     IRInstruction("ASSIGN", V_x, <<"5">>, <<>>, 0),
     IRInstruction("LABEL", V_L0, <<>>, <<>>, 0),
     IRInstruction("IF_FALSE", V_L0, V_x, <<>>, 0),
     IRInstruction("GOTO", V_L1, <<>>, <<>>, 0),
     IRInstruction("RETURN", <<>>, V_x, <<>>, 0)}

CfgLists ==
    {generate(prog) : prog \in GenPrograms}
        \cup UNION {[1..n -> CfgCatalogue] : n \in 0..MaxIR}

InitCfg ==
    /\ ir_in \in CfgLists
    /\ cfg = NewControlFlowGraph
    /\ pc = "build"
    /\ result = "none"
    /\ ir_out = <<>> /\ ir_prev = <<>> /\ opt_runs = 0
    /\ DriverIdle /\ SemIdle /\ GenIdle /\ AsmIdle
    /\ current = 0 /\ pass = "none" /\ valuation = <<>>
    /\ MoreIdle

\* cfg.build_from_ir(ir)
BuildFromIr ==
    /\ pc = "build"
    /\ cfg' = build_from_ir(cfg, ir_in)
    /\ pc' = "done"
    /\ UNCHANGED <<source, options, tokens, ast, syntax_errors, error_messages,
                   ir_code, phases, result, semVars, optVars, genVars, current,
                   asmVars, pass, valuation,
                   moreVars>>

\* cfg.get_topological_order() on the graph that was built
GetTopologicalOrder ==
    /\ pc = "done"
    /\ topo_order' = get_topological_order(cfg)
    /\ pc' = "ordered"
    /\ UNCHANGED <<source, options, tokens, ast, syntax_errors, error_messages,
                   ir_code, phases, result, semVars, optVars, genVars, cfg,
                   current, asmVars, pass, valuation, allocator, emitted,
                   symtab, last_call>>

NextCfg ==
    \/ BuildFromIr
    \/ GetTopologicalOrder

SpecCfg == InitCfg /\ [][NextCfg]_vars

-----------------------------------------------------------------------------
(* SpecLex: Lexer::tokenize on a freshly constructed Lexer.  The sources    *)
(* are made of at most MaxPieces of the pieces below: white space, line     *)
(* and block comments, words, numbers, operators, a block comment that is   *)
(* not closed and a character the lexer does not know.                      *)

\* a space, a newline, a tab
PcSpaces ==
    <<" ", "\n", "\t">>

\* // c and the newline
PcLineComment ==
    <<"/", "/", " ", "c", "\n">>

\* //c with no newline after it
PcLineCommentAtEnd ==
    <<"/", "/", "c">>

\* /* b, a newline, */
PcBlockComment ==
    <<"/", "*", " ", "b", "\n", "*", "/">>

\* /**/
PcEmptyBlockComment ==
    <<"/", "*", "*", "/">>

\* int x1
PcWord ==
    <<"i", "n", "t", " ", "x", "1">>

\* 007
PcNumber ==
    <<"0", "0", "7">>

\* <==/
PcOperators ==
    <<"<", "=", "=", "/">>

\* /* u, never closed
PcOpenBlockComment ==
    <<"/", "*", " ", "u">>

\* @
PcBadChar ==
    <<"@">>

\* the pieces that are white space or a comment closed by its newline or */
BlankPieces == {PcSpaces, PcLineComment, PcBlockComment, PcEmptyBlockComment}

LexPieces ==
    BlankPieces \cup {PcLineCommentAtEnd, PcWord, PcNumber, PcOperators,
                      PcOpenBlockComment, PcBadChar}

\* the concatenations of at most n pieces of S
RECURSIVE Concatenations(_, _)
Concatenations(S, n) ==
    IF n = 0 THEN {<<>>}
    ELSE LET shorter == Concatenations(S, n - 1)
         IN  shorter \cup {p \o t : p \in shorter, t \in S}

LexSources == Concatenations(LexPieces, MaxPieces)

\* the sources made only of white space and comments: the line comment
\* with no newline can only be the last piece, what follows it would be
\* part of it up to the next newline
BlankSources ==
    Concatenations(BlankPieces, MaxPieces)
        \cup {p \o PcLineCommentAtEnd : p \in Concatenations(BlankPieces, MaxPieces - 1)}

InitLex ==
    /\ source \in LexSources
    /\ tokens = <<>>
    /\ pc = "tokenize"
    /\ result = "none"
    /\ options = Null /\ ast = Null /\ syntax_errors = <<>>
    /\ error_messages = <<>> /\ ir_code = <<>> /\ phases = <<>>
    /\ SemIdle /\ OptIdle /\ AuxIdle

\* auto tokens = lexer.tokenize(): the call returns
Tokenize ==
    /\ pc = "tokenize"
    /\ \E t \in {tokenize(source)} :
          /\ t.ok
          /\ tokens' = t.tokens
    /\ pc' = "done"
    /\ result' = "returned"
    /\ UNCHANGED <<source, options, ast, syntax_errors, error_messages, ir_code,
                   phases, semVars, optVars, auxVars>>

\* the call leaves by the runtime_error of nextToken
TokenizeThrows ==
    /\ pc = "tokenize"
    /\ ~tokenize(source).ok
    /\ pc' = "done"
    /\ result' = "exception"
    /\ UNCHANGED <<source, options, tokens, ast, syntax_errors, error_messages,
                   ir_code, phases, semVars, optVars, auxVars>>

NextLex == Tokenize \/ TokenizeThrows

SpecLex == InitLex /\ [][NextLex]_vars

-----------------------------------------------------------------------------
(* SpecParse: Parser::parse_program on the token vector the lexer returns   *)
(* for a source, one action per iteration of its loop.  The sources are     *)
(* made of at most MaxParsePieces of the pieces below, joined by a space:   *)
(* declarations, and token runs no declaration starts with or ends in.      *)

\* int x;
PsVar ==
    <<"i", "n", "t", " ", "x", ";">>

\* void g(int a){if(a<1){return;}}
PsFun ==
    <<"v", "o", "i", "d", " ", "g", "(", "i", "n", "t", " ", "a", ")", "{",
      "i", "f", "(", "a", "<", "1", ")", "{", "r", "e", "t", "u", "r", "n",
      ";", "}", "}">>

\* y
PsIdentifier ==
    <<"y">>

\* int
PsType ==
    <<"i", "n", "t">>

\* ;
PsSemicolon ==
    <<";">>

\* int f(void){return 0
PsOpenFun ==
    <<"i", "n", "t", " ", "f", "(", "v", "o", "i", "d", ")", "{", "r", "e",
      "t", "u", "r", "n", " ", "0">>

\* } {
PsBraces ==
    <<"}", " ", "{">>

ParsePieces == {PsVar, PsFun, PsIdentifier, PsType, PsSemicolon, PsOpenFun, PsBraces}

ParseSources == SourcesOf(ParsePieces, MaxParsePieces)

InitParse ==
    /\ source \in ParseSources
    /\ tokens = tokenize(source).tokens
    /\ current = 0
    /\ ast = ProgramNode(<<>>)
    /\ syntax_errors = <<>>
    /\ pc = "parse_program"
    /\ result = "none"
    /\ options = Null /\ error_messages = <<>> /\ ir_code = <<>> /\ phases = <<>>
    /\ SemIdle /\ OptIdle /\ GenIdle /\ CfgIdle /\ AsmIdle
    /\ pass = "none" /\ valuation = <<>>
    /\ MoreIdle

\* an iteration of the loop in which parse_declaration returns
ParseDeclaration ==
    /\ pc = "parse_program"
    /\ ~isAtEnd(tokens, current)
    /\ \E d \in {parse_declaration(tokens, current)} :
          /\ d.ok
          /\ ast' = [ast EXCEPT !.declarations = Append(@, d.node)]
          /\ current' = d.cur
    /\ UNCHANGED <<source, options, pc, tokens, syntax_errors, error_messages,
                   ir_code, phases, result, semVars, optVars, genVars, cfg,
                   asmVars, pass, valuation,
                   moreVars>>

\* an iteration in which parse_declaration throws: the catch clause
ErrorRecovery ==
    /\ pc = "parse_program"
    /\ ~isAtEnd(tokens, current)
    /\ \E d \in {parse_declaration(tokens, current)} :
          /\ ~d.ok
          /\ syntax_errors' = Append(syntax_errors, d.msg)
          /\ current' = error_recovery(tokens, d.cur)
    /\ UNCHANGED <<source, options, pc, tokens, ast, error_messages, ir_code,
                   phases, result, semVars, optVars, genVars, cfg, asmVars, pass,
                   valuation,
                   moreVars>>

\* the loop ends: return program
ReturnProgram ==
    /\ pc = "parse_program"
    /\ isAtEnd(tokens, current)
    /\ pc' = "done"
    /\ result' = "returned"
    /\ UNCHANGED <<source, options, tokens, ast, syntax_errors, error_messages,
                   ir_code, phases, semVars, optVars, genVars, cfg, current,
                   asmVars, pass, valuation,
                   moreVars>>

NextParse == ParseDeclaration \/ ErrorRecovery \/ ReturnProgram

SpecParse == InitParse /\ [][NextParse]_vars

\* parse_program is one call running to its end: a step that can be taken is
\* taken
SpecParseLive == SpecParse /\ WF_vars(NextParse)

-----------------------------------------------------------------------------
(* SpecAsm: compilations one after the other in one process; each           *)
(* constructs an AssemblyGenerator and calls generate_from_ir, as           *)
(* run_code_generation does.  The IR lists are those the generator returns  *)
(* for GenPrograms and the one-instruction lists below.                     *)

V_y == <<"y">>
V_v == <<"v">>

AsmCatalogue ==
    {IRInstruction("ASSIGN", V_y, <<"5">>, <<>>, 0),
     IRInstruction("ADD", V_t0, V_y, V_x, 0),
     IRInstruction("ARRAY_ACCESS", V_t1, V_v, V_x, 0),
     IRInstruction("ARRAY_ASSIGN", V_v, <<"0">>, V_t0, 0),
     IRInstruction("PARAM", <<>>, <<"-", "1">>, <<>>, 0)}

AsmLists ==
    {generate(prog) : prog \in GenPrograms}
       \cup {generate(parseSource(SrcGenManyTemps))}
       \cup {<<instr>> : instr \in AsmCatalogue}

InitAsm ==
    /\ var_offsets = NewMemoryLocations.var_offsets
    /\ next_offset = NewMemoryLocations.next_offset
    /\ asm_uses = <<>>
    /\ pc = "generate_from_ir"
    /\ result = "none"
    /\ DriverIdle /\ SemIdle /\ OptIdle /\ GenIdle /\ CfgIdle
    /\ current = 0 /\ pass = "none" /\ valuation = <<>>
    /\ MoreIdle

\* asm_gen.generate_from_ir(ir_code) of one more compilation
GenerateFromIr ==
    /\ pc = "generate_from_ir"
    /\ Len(asm_uses) < MaxAsmRuns
    /\ \E instructions \in AsmLists :
          \E r \in {generate_from_ir([var_offsets |-> var_offsets,
                                      next_offset |-> next_offset], instructions)} :
             /\ var_offsets' = r.statics.var_offsets
             /\ next_offset' = r.statics.next_offset
             /\ asm_uses' = Append(asm_uses, r.uses)
    /\ UNCHANGED <<driverVars, semVars, optVars, genVars, cfg, current, pass,
                   valuation,
                   moreVars>>

NextAsm == GenerateFromIr

SpecAsm == InitAsm /\ [][NextAsm]_vars

-----------------------------------------------------------------------------
(* SpecPass: one pass of the optimizer applied to an IR list, as optimize   *)
(* applies it.  The lists are IRLists and the lists the generator returns   *)
(* for GenPrograms, each instruction carrying its position as line_number.  *)

Numbered(L) == [i \in 1..Len(L) |-> [L[i] EXCEPT !.line_number = i]]

PassLists == IRLists \cup {Numbered(generate(prog)) : prog \in GenPrograms}

InitPass ==
    /\ ir_in \in PassLists
    /\ ir_out = ir_in
    /\ ir_prev = <<>>
    /\ opt_runs = 0
    /\ pass = "none"
    /\ pc = "pass"
    /\ result = "none"
    /\ DriverIdle /\ SemIdle /\ GenIdle /\ CfgIdle /\ AsmIdle
    /\ current = 0 /\ valuation = <<>>
    /\ MoreIdle

\* what a pass leaves unchanged
PassFrame ==
    UNCHANGED <<source, options, tokens, ast, syntax_errors, error_messages,
                ir_code, phases, semVars, ir_in, ir_prev, opt_runs, genVars, cfg,
                current, asmVars, valuation,
                   moreVars>>

\* constant_folding(optimized): the call returns
ConstantFolding ==
    /\ pc = "pass"
    /\ \E folded \in {constant_folding(ir_in)} :
          /\ folded.ok
          /\ ir_out' = folded.code
    /\ pass' = "constant_folding"
    /\ pc' = "done"
    /\ result' = "returned"
    /\ PassFrame

\* the call leaves by the exception of std::stoi
ConstantFoldingThrows ==
    /\ pc = "pass"
    /\ ~constant_folding(ir_in).ok
    /\ pass' = "constant_folding"
    /\ pc' = "done"
    /\ result' = "exception"
    /\ ir_out' = ir_out
    /\ PassFrame

\* copy_propagation(optimized)
CopyPropagation ==
    /\ pc = "pass"
    /\ ir_out' = copy_propagation(ir_in)
    /\ pass' = "copy_propagation"
    /\ pc' = "done"
    /\ result' = "returned"
    /\ PassFrame

\* algebraic_simplification(optimized)
AlgebraicSimplification ==
    /\ pc = "pass"
    /\ ir_out' = algebraic_simplification(ir_in)
    /\ pass' = "algebraic_simplification"
    /\ pc' = "done"
    /\ result' = "returned"
    /\ PassFrame

\* dead_code_elimination(optimized)
DeadCodeElimination ==
    /\ pc = "pass"
    /\ ir_out' = dead_code_elimination(ir_in)
    /\ pass' = "dead_code_elimination"
    /\ pc' = "done"
    /\ result' = "returned"
    /\ PassFrame

NextPass ==
    \/ ConstantFolding
    \/ ConstantFoldingThrows
    \/ CopyPropagation
    \/ AlgebraicSimplification
    \/ DeadCodeElimination

SpecPass == InitPass /\ [][NextPass]_vars

-----------------------------------------------------------------------------
(* Execution of IR.  The meaning of an instruction is that of the assembly  *)
(* AssemblyGenerator emits for it: operands are literals or memory cells,   *)
(* arithmetic and comparisons store into the result cell, IF_FALSE jumps    *)
(* when the operand is 0, PARAM pushes a value, CALL stores what the callee *)
(* left in rax, RETURN leaves the function with a value.  The execution     *)
(* starts at the first instruction of the list and is observed through the  *)
(* values pushed, the calls made and the value returned.  Values stay far   *)
(* below the width of a register within MaxSteps steps.                     *)

\* the value of an operand: get_operand, then the load
ValueOf(env, operand) ==
    IF operand_is_constant(operand) THEN stoi(operand).value
    ELSE IF operand \in DOMAIN env THEN env[operand]
    ELSE 0

\* the position of LABEL name in L, 0 if there is none
LabelPosition(L, name) ==
    IF \E k \in 1..Len(L) : L[k].op = "LABEL" /\ L[k].result = name
    THEN CHOOSE k \in 1..Len(L) : L[k].op = "LABEL" /\ L[k].result = name
    ELSE 0

\* what generate_arithmetic and generate_comparison compute from v1 and v2;
\* idiv by 0 is handled by the caller
Computed(op, v1, v2) ==
    CASE op = "ADD" -> v1 + v2
      [] op = "SUB" -> v1 - v2
      [] op = "MUL" -> v1 * v2
      [] op = "DIV" -> TruncDiv(v1, v2)
      [] op = "MOD" -> TruncMod(v1, v2)
      [] op = "EQ"  -> IF v1 = v2 THEN 1 ELSE 0
      [] op = "NE"  -> IF v1 # v2 THEN 1 ELSE 0
      [] op = "LT"  -> IF v1 < v2 THEN 1 ELSE 0
      [] op = "LE"  -> IF v1 <= v2 THEN 1 ELSE 0
      [] op = "GT"  -> IF v1 > v2 THEN 1 ELSE 0
      [] op = "GE"  -> IF v1 >= v2 THEN 1 ELSE 0

\* the machine before the first instruction; at is the position of the next
\* instruction, env the memory cells
Started(env) ==
    [at |-> 1, env |-> env, status |-> "running", pushed |-> <<>>,
     calls |-> <<>>, returned |-> 0]

\* the machine after the instruction instr at E.at, v1 and v2 being the
\* values of its operands
execute(L, E, instr, v1, v2) ==
    LET next == [E EXCEPT !.at = @ + 1]
    IN  IF instr.op \in {"ADD", "SUB", "MUL", "EQ", "NE", "LT", "LE", "GT", "GE"}
        THEN [next EXCEPT !.env = MapPut(@, instr.result, Computed(instr.op, v1, v2))]
        ELSE IF instr.op \in {"DIV", "MOD"}
        THEN IF v2 = 0 THEN [E EXCEPT !.status = "trapped"]
             ELSE [next EXCEPT !.env = MapPut(@, instr.result, Computed(instr.op, v1, v2))]
        ELSE IF instr.op \in {"ASSIGN", "COPY"}
        THEN [next EXCEPT !.env = MapPut(@, instr.result, v1)]
        ELSE IF instr.op = "GOTO"
        THEN [E EXCEPT !.at = LabelPosition(L, instr.result)]
        ELSE IF instr.op = "IF_FALSE"
        THEN IF v1 = 0 THEN [E EXCEPT !.at = LabelPosition(L, instr.result)] ELSE next
        ELSE IF instr.op = "IF_TRUE"
        THEN IF v1 # 0 THEN [E EXCEPT !.at = LabelPosition(L, instr.result)] ELSE next
        ELSE IF instr.op = "PARAM"
        THEN [next EXCEPT !.pushed = Append(@, v1)]
        ELSE IF instr.op = "CALL"
        THEN [next EXCEPT !.calls = Append(@, <<instr.arg1, instr.arg2>>),
                          !.env = IF instr.result # <<>>
                                  THEN MapPut(@, instr.result, ValueOf(E.env, instr.arg1))
                                  ELSE @]
        ELSE IF instr.op = "RETURN"
        THEN [E EXCEPT !.status = "returned", !.returned = v1]
        ELSE IF instr.op = "FUNCTION_END"
        THEN [E EXCEPT !.status = "ended"]
        ELSE next

\* at most fuel instructions of L executed from E on
RECURSIVE run(_, _, _)
run(L, E, fuel) ==
    IF fuel = 0 \/ E.status # "running" THEN E
    ELSE IF E.at < 1 \/ E.at > Len(L) THEN [E EXCEPT !.status = "ended"]
    ELSE run(L,
             execute(L, E, L[E.at], ValueOf(E.env, L[E.at].arg1),
                     ValueOf(E.env, L[E.at].arg2)),
             fuel - 1)

\* what is observed of the execution of L from the valuation env
Observed(L, env) ==
    The({[status |-> E.status, returned |-> E.returned, pushed |-> E.pushed,
          calls |-> E.calls] : E \in {run(L, Started(env), MaxSteps)}})

-----------------------------------------------------------------------------
(* SpecRun: optimize applied to the list the generator returns for one of   *)
(* GenPrograms; the valuation gives the cells a, x and the value the        *)
(* function add leaves in rax.                                              *)

V_a   == <<"a">>
V_add == <<"a", "d", "d">>

Valuations == [{V_a, V_x, V_add} -> 0..MaxValue]

InitRun ==
    /\ ir_in \in {generate(prog) : prog \in GenPrograms}
    /\ valuation \in Valuations
    /\ ir_out = ir_in
    /\ ir_prev = <<>>
    /\ opt_runs = 0
    /\ pc = "optimize"
    /\ result = "none"
    /\ DriverIdle /\ SemIdle /\ GenIdle /\ CfgIdle /\ AsmIdle
    /\ current = 0 /\ pass = "none"
    /\ MoreIdle

\* ir_code = optimizer->optimize(ir_code)
OptimizeGenerated ==
    /\ pc = "optimize"
    /\ \E o \in {optimize(ir_in)} :
          /\ o.ok
          /\ ir_out' = o.code
    /\ ir_prev' = ir_out
    /\ opt_runs' = opt_runs + 1
    /\ pc' = "done"
    /\ UNCHANGED <<source, options, tokens, ast, syntax_errors, error_messages,
                   ir_code, phases, result, semVars, ir_in, auxVars>>

NextRun == OptimizeGenerated

SpecRun == InitRun /\ [][NextRun]_vars

-----------------------------------------------------------------------------
(* SpecAlloc: the public calls of one RegisterAllocator.  The allocator    *)
(* starts as it is after 0 to NumRegisters calls of allocate_register(),   *)
(* so that the runs with an empty pool are among those explored; at most   *)
(* MaxAllocCalls calls follow.  last_call keeps the call, its argument,    *)
(* what it returned and the allocator it was made on.                      *)

\* the registers initialize_registers puts in the queue
NumRegisters == Len(initialize_registers)

MaxAllocCalls == 3

AllocTemps == {"t0", "t1"}
AllocRegs  == {"r10", "rcx"}

InitAlloc ==
    /\ \E n \in 0..NumRegisters :
          allocator = allocate_registers(NewRegisterAllocator, n)
    /\ last_call = NoCall
    /\ topo_order = <<>> /\ emitted = <<>> /\ symtab = <<EmptyScope>>
    /\ pc = "calls"
    /\ result = "none"
    /\ DriverIdle /\ SemIdle /\ OptIdle /\ GenIdle /\ CfgIdle /\ AsmIdle
    /\ current = 0 /\ pass = "none" /\ valuation = <<>>

\* what no call on the allocator changes
AllocFrame ==
    UNCHANGED <<driverVars, semVars, optVars, genVars, cfg, current, asmVars,
                pass, valuation, topo_order, emitted, symtab>>

Called(name, arg, returned) ==
    [name |-> name, arg |-> arg, returned |-> returned, before |-> allocator,
     count |-> last_call.count + 1]

\* allocator.allocate_register()
AllocateRegister ==
    /\ last_call.count < MaxAllocCalls
    /\ allocator' = allocate_register(allocator).R
    /\ last_call' = Called("allocate_register", "", allocate_register(allocator).reg)
    /\ AllocFrame

\* allocator.allocate_register(temp)
AllocateRegisterFor ==
    /\ last_call.count < MaxAllocCalls
    /\ \E temp \in AllocTemps :
          /\ allocator' = allocate_register_for(allocator, temp).R
          /\ last_call' = Called("allocate_register(temp)", temp,
                                 allocate_register_for(allocator, temp).reg)
    /\ AllocFrame

\* allocator.free_register(reg)
FreeRegister ==
    /\ last_call.count < MaxAllocCalls
    /\ \E reg \in AllocRegs :
          /\ allocator' = free_register(allocator, reg)
          /\ last_call' = Called("free_register", reg, "")
    /\ AllocFrame

\* allocator.free_register_for_temp(temp)
FreeRegisterForTemp ==
    /\ last_call.count < MaxAllocCalls
    /\ \E temp \in AllocTemps :
          /\ allocator' = free_register_for_temp(allocator, temp)
          /\ last_call' = Called("free_register_for_temp", temp, "")
    /\ AllocFrame

\* allocator.spill_to_memory(temp)
SpillToMemory ==
    /\ last_call.count < MaxAllocCalls
    /\ \E temp \in AllocTemps :
          /\ allocator' = spill_to_memory(allocator, temp)
          /\ last_call' = Called("spill_to_memory", temp, "")
    /\ AllocFrame

NextAlloc ==
    \/ AllocateRegister
    \/ AllocateRegisterFor
    \/ FreeRegister
    \/ FreeRegisterForTemp
    \/ SpillToMemory

SpecAlloc == InitAlloc /\ [][NextAlloc]_vars

-----------------------------------------------------------------------------
(* SpecEmit: the loop of generate_from_ir over at most MaxEmitted          *)
(* instructions, on the allocator of a new AssemblyGenerator.  emitted     *)
(* keeps, for each instruction translated, its opcode and the registers    *)
(* its translation obtained.                                               *)

MaxEmitted == 3

V_arr == <<"a", "r", "r">>

\* the instructions of the runs
EmitCatalogue ==
    {IRInstruction("ADD", V_t0, V_x, V_y, 0),
     IRInstruction("DIV", V_t0, V_x, V_y, 0),
     IRInstruction("MOD", V_t0, V_x, V_y, 0),
     IRInstruction("LT", V_t0, V_x, V_y, 0),
     IRInstruction("ASSIGN", V_x, V_t0, <<>>, 0),
     IRInstruction("ARRAY_ASSIGN", V_arr, V_x, V_y, 0),
     IRInstruction("GOTO", V_L1, <<>>, <<>>, 0),
     IRInstruction("RETURN", <<>>, V_x, <<>>, 0)}

InitEmit ==
    /\ allocator = NewRegisterAllocator
    /\ emitted = <<>>
    /\ last_call = NoCall
    /\ topo_order = <<>> /\ symtab = <<EmptyScope>>
    /\ pc = "emit"
    /\ result = "none"
    /\ DriverIdle /\ SemIdle /\ OptIdle /\ GenIdle /\ CfgIdle /\ AsmIdle
    /\ current = 0 /\ pass = "none" /\ valuation = <<>>

\* one turn of the loop of generate_from_ir
TranslateInstruction ==
    /\ Len(emitted) < MaxEmitted
    /\ \E instr \in EmitCatalogue :
          /\ allocator' = translate_instruction(allocator, instr).R
          /\ emitted' = Append(emitted,
                 [op |-> instr.op,
                  regs |-> translate_instruction(allocator, instr).regs])
    /\ UNCHANGED <<driverVars, semVars, optVars, genVars, cfg, current, asmVars,
                   pass, valuation, topo_order, symtab, last_call>>

NextEmit == TranslateInstruction

SpecEmit == InitEmit /\ [][NextEmit]_vars

-----------------------------------------------------------------------------
(* SpecSym: the calls of a SymbolTable, followed from the root scope.      *)
(* symtab is the chain from the root scope to the current one, at most     *)
(* MaxScopes long; the symbols declared are variables named x or y of      *)
(* type int or void.                                                       *)

MaxScopes == 3

SymNames == {<<"x">>, <<"y">>}
SymSymbols ==
    {VariableSymbol(n, dt, FALSE, FALSE) : n \in SymNames, dt \in {"INT", "VOID"}}

InitSym ==
    /\ symtab = <<EmptyScope>>
    /\ last_call = NoCall
    /\ topo_order = <<>> /\ emitted = <<>> /\ allocator = NewRegisterAllocator
    /\ pc = "symbols"
    /\ result = "none"
    /\ DriverIdle /\ SemIdle /\ OptIdle /\ GenIdle /\ CfgIdle /\ AsmIdle
    /\ current = 0 /\ pass = "none" /\ valuation = <<>>

SymFrame ==
    UNCHANGED <<driverVars, semVars, optVars, genVars, cfg, current, asmVars,
                pass, valuation, topo_order, allocator, emitted>>

SymCalled(name, arg, returned) ==
    [name |-> name, arg |-> arg, returned |-> returned, before |-> symtab,
     count |-> 0]

\* current = current->enter_scope()
EnterScope ==
    /\ Len(symtab) < MaxScopes
    /\ symtab' = enter_scope(symtab)
    /\ last_call' = SymCalled("enter_scope", <<>>, Len(symtab) + 1)
    /\ SymFrame

\* current = current->exit_scope(), in a scope that has a parent
ExitScope ==
    /\ Len(symtab) > 1
    /\ symtab' = exit_scope(symtab)
    /\ last_call' = SymCalled("exit_scope", <<>>, Len(symtab) - 1)
    /\ SymFrame

\* current->declare_symbol(symbol)
DeclareSymbol ==
    /\ \E sym \in SymSymbols :
          /\ symtab' = declare_symbol(symtab, sym).scopes
          /\ last_call' = SymCalled("declare_symbol", sym,
                                    declare_symbol(symtab, sym).ok)
    /\ SymFrame

\* current->lookup_symbol(name): the scope of the symbol returned, 0 for
\* nullptr
LookupSymbol ==
    /\ \E n \in SymNames :
          last_call' = SymCalled("lookup_symbol", n,
                                 lookup_symbol(symtab, Len(symtab), n))
    /\ UNCHANGED symtab
    /\ SymFrame

NextSym ==
    \/ EnterScope
    \/ ExitScope
    \/ DeclareSymbol
    \/ LookupSymbol

SpecSym == InitSym /\ [][NextSym]_vars

-----------------------------------------------------------------------------
(* SpecAgain: one SemanticAnalyzer given the same program several times,   *)
(* as the driver does when compile_from_source is called again, with or    *)
(* without reset_analysis between the analyses; at most MaxAnalyses        *)
(* analyses.  last_call keeps what the first analysis returned (first) and *)
(* what the last one did (returned).                                       *)

MaxAnalyses == 3

\* what the first analysis returned
FirstVerdict ==
    IF last_call.name = "none" THEN ~has_errors(analyzer) ELSE last_call.first

AgainFrame ==
    UNCHANGED <<source, options, tokens, ast, syntax_errors, error_messages,
                ir_code, phases, result, program, pc, optVars, genVars, cfg,
                current, asmVars, pass, valuation, topo_order, allocator,
                emitted, symtab>>

\* analyzer.reset_analysis() after an analysis
ResetAnalysis ==
    /\ pc = "done"
    /\ analyzed < MaxAnalyses
    /\ last_call.name # "reset_analysis"
    /\ analyzer' = reset_analysis(analyzer)
    /\ last_call' = [name |-> "reset_analysis", first |-> FirstVerdict,
                     returned |-> FirstVerdict, count |-> analyzed]
    /\ UNCHANGED analyzed
    /\ AgainFrame

\* analyzer.analyze(*program) once more
AnalyzeAgain ==
    /\ pc = "done"
    /\ analyzed < MaxAnalyses
    /\ \E A \in {analyze(analyzer, program)} :
          /\ analyzer' = A
          /\ last_call' = [name |-> "analyze", first |-> FirstVerdict,
                           returned |-> ~has_errors(A), count |-> analyzed + 1]
    /\ analyzed' = analyzed + 1
    /\ AgainFrame

NextAgain ==
    \/ ParseProgram
    \/ Analyze
    \/ ResetAnalysis
    \/ AnalyzeAgain

SpecAgain == InitSem /\ [][NextAgain]_vars

-----------------------------------------------------------------------------
(* SpecCodegen: a program is taken through the lexer, the parser, the      *)
(* analyzer and the IR generator (a source one of them rejects goes no     *)
(* further), and the list is then translated one                           *)
(* instruction at a time by the loop of generate_from_ir.  emitted keeps,  *)
(* for each instruction, the function that translated it, its registers   *)
(* and whether the translation stores to the result.                       *)

CodegenSources ==
    GenSources \cup {SrcGenNot, SrcGenNegate, SrcGenManyTemps} \cup SemSources

InitCodegen ==
    /\ source \in CodegenSources
    /\ pc = "front_end"
    /\ result = "none"
    /\ options = Null /\ tokens = <<>> /\ ast = Null /\ syntax_errors = <<>>
    /\ error_messages = <<>> /\ ir_code = <<>> /\ phases = <<>>
    /\ SemIdle /\ OptIdle /\ GenIdle /\ CfgIdle /\ AsmIdle
    /\ current = 0 /\ pass = "none" /\ valuation = <<>>
    /\ MoreIdle

\* the phases before code generation: the program is accepted when the
\* lexer and the parser report nothing and analyze returns true
FrontEnd ==
    /\ pc = "front_end"
    /\ \E t \in {tokenize(source)} :
          /\ t.ok
          /\ tokens' = t.tokens
          /\ \E p \in {parse_program(t.tokens)} :
                /\ p.errors = <<>>
                /\ ast' = p.node
                /\ \E A \in {analyze(analyzer, p.node)} :
                      /\ analyzer' = A
                      /\ IF has_errors(A)
                         THEN /\ pc' = "rejected"
                              /\ ir_code' = ir_code
                         ELSE /\ pc' = "generate_from_ir"
                              /\ ir_code' = generate(p.node)
    /\ UNCHANGED <<source, options, syntax_errors, error_messages, phases,
                   result, program, analyzed, optVars, auxVars>>

\* one turn of the loop of generate_from_ir over ir_code
TranslateNext ==
    /\ pc = "generate_from_ir"
    /\ current < Len(ir_code)
    /\ \E instr \in {ir_code[current + 1]} :
          /\ allocator' = translate_instruction(allocator, instr).R
          /\ emitted' = Append(emitted,
                 [op |-> instr.op,
                  regs |-> translate_instruction(allocator, instr).regs,
                  by |-> translated_by(instr),
                  stores |-> stores_result(instr)])
    /\ current' = current + 1
    /\ UNCHANGED <<driverVars, semVars, optVars, genVars, cfg, asmVars, pass,
                   valuation, topo_order, symtab, last_call>>

NextCodegen ==
    \/ FrontEnd
    \/ TranslateNext

SpecCodegen == InitCodegen /\ [][NextCodegen]_vars

-----------------------------------------------------------------------------
(* Reading an AST.                                                          *)

\* the nodes of the sub-tree at node, nullptr left out
RECURSIVE Nodes(_)
NodesOfAll(seq) == UNION {Nodes(seq[i]) : i \in 1..Len(seq)}

Nodes(node) ==
    IF node.kind = "null" THEN {}
    ELSE {node} \cup
         CASE node.kind = "Program" -> NodesOfAll(node.declarations)
           [] node.kind = "FunDeclaration" ->
                  NodesOfAll(node.params) \cup Nodes(node.body)
           [] node.kind = "CompoundStmt" ->
                  NodesOfAll(node.locals) \cup NodesOfAll(node.statements)
           [] node.kind = "IfStmt" ->
                  Nodes(node.cond) \cup Nodes(node.thenStmt) \cup Nodes(node.elseStmt)
           [] node.kind = "WhileStmt" -> Nodes(node.cond) \cup Nodes(node.body)
           [] node.kind = "ReturnStmt" -> Nodes(node.expr)
           [] node.kind = "BinaryOp" -> Nodes(node.left) \cup Nodes(node.right)
           [] node.kind = "UnaryOp" -> Nodes(node.operand)
           [] node.kind = "Variable" -> Nodes(node.index)
           [] node.kind = "Call" -> NodesOfAll(node.args)
           [] OTHER -> {}

\* the function declarations of prog named name
FunDeclarations(prog, name) ==
    {d \in {prog.declarations[i] : i \in 1..Len(prog.declarations)} :
        d.kind = "FunDeclaration" /\ d.name = name}

\* d is written `int main(void)`
IsIntMainVoid(d) == d.return_type = W_int /\ d.params = <<>>

\* the types of the errors collected
ErrorTypes(S) == {S.errors[i].error_type : i \in 1..Len(S.errors)}

\* the analyzer of the fixture has analyzed the parsed program
Analyzed == pc = "done" /\ analyzed = 1

-----------------------------------------------------------------------------
(* The claims.                                                              *)

\* C1: for every source in which the parser reports at least one syntax
\* error, compile_from_source returns false, whatever the recovered partial
\* AST contains.
C1_SyntaxErrorFailsCompilation ==
    (pc = "done" /\ syntax_errors # <<>>) => result = "false"

PhaseOrder ==
    <<"lexical_analysis", "syntax_analysis", "semantic_analysis", "ir_generation",
      "optimization", "code_generation", "assembly_and_linking">>

\* C2: the phases of compile_from_source run in the fixed order lexical
\* analysis, syntax analysis, semantic analysis, IR generation, optimization,
\* code generation; a phase starts only after every earlier phase returned
\* success; as soon as a phase returns failure no later phase runs and the
\* call returns false with a non-empty error list.
C2_PhasesInOrderHaltOnFailure ==
    /\ Len(phases) <= Len(PhaseOrder)
    /\ \A i \in 1..Len(phases) : phases[i].name = PhaseOrder[i]
    /\ \A i \in 1..(Len(phases) - 1) : phases[i].ok
    /\ \A k \in 1..Len(PhaseOrder) :
          pc = PhaseOrder[k] => Len(phases) = k - 1 /\ \A i \in 1..(k - 1) : phases[i].ok
    /\ (phases # <<>> /\ ~phases[Len(phases)].ok)
          => pc = "done" /\ result = "false" /\ error_messages # <<>>
    /\ result = "false" => phases # <<>> /\ ~phases[Len(phases)].ok

\* the semantic analysis failed after two phases had succeeded, and the
\* driver returned false there
C2_Witness ==
    /\ pc = "done" /\ result = "false"
    /\ Len(phases) = 3 /\ phases[1].ok /\ phases[2].ok /\ ~phases[3].ok

\* p is a parameter written `int name`
IsIntParam(p) == p.type = W_int /\ ~p.isArray

\* the expression e only reads the variables named in names
RECURSIVE ReadsOnly(_, _)
ReadsOnly(e, names) ==
    IF e.kind = "Variable" THEN e.index = Null /\ e.name \in names
    ELSE IF e.kind = "BinaryOp"
    THEN /\ e.op \in {<<"+">>, <<"-">>, <<"*">>}
         /\ ReadsOnly(e.left, names) /\ ReadsOnly(e.right, names)
    ELSE FALSE

\* the body is `{ return <expression>; }`
ReturnsExpression(body) ==
    /\ body.kind = "CompoundStmt" /\ body.locals = <<>>
    /\ Len(body.statements) = 1
    /\ body.statements[1].kind = "ReturnStmt"
    /\ body.statements[1].expr # Null

\* f is an int function whose body returns an expression over its own int
\* parameters
ReadsOwnParams(f) ==
    /\ f.kind = "FunDeclaration" /\ f.return_type = W_int /\ f.name # W_main
    /\ f.params # <<>>
    /\ \A i \in 1..Len(f.params) : IsIntParam(f.params[i])
    /\ \A i, j \in 1..Len(f.params) : f.params[i].name = f.params[j].name => i = j
    /\ ReturnsExpression(f.body)
    /\ ReadsOnly(f.body.statements[1].expr, {f.params[i].name : i \in 1..Len(f.params)})

\* m is `int main(void)` returning a call of f with as many int literals as
\* f has parameters
CallsWithMatchingInts(m, f) ==
    /\ m.kind = "FunDeclaration" /\ m.name = W_main /\ IsIntMainVoid(m)
    /\ ReturnsExpression(m.body)
    /\ m.body.statements[1].expr.kind = "Call"
    /\ m.body.statements[1].expr.name = f.name
    /\ Len(m.body.statements[1].expr.args) = Len(f.params)
    /\ \A i \in 1..Len(f.params) : m.body.statements[1].expr.args[i].kind = "Number"

\* C3: the analyzer accepts (no error collected) every program in which a
\* function body reads its own declared int parameters and main calls that
\* function with the matching number of int arguments.
C3_ParametersReadable ==
    (/\ Analyzed /\ syntax_errors = <<>>
     /\ Len(program.declarations) = 2
     /\ ReadsOwnParams(program.declarations[1])
     /\ CallsWithMatchingInts(program.declarations[2], program.declarations[1]))
        => ~has_errors(analyzer)

\* C4: the program whose main declares `int x;`, assigns `x = input();` and
\* calls `output(x);` is tokenized, parsed into a Program that contains main,
\* and accepted by the analyzer.
C4_BuiltinsCallable ==
    source = <<" ">> \o SrcMainBuiltins
        => /\ tokenize(source).ok
           /\ Analyzed => /\ FunDeclarations(program, W_main) # {}
                          /\ ~has_errors(analyzer)

\* the tokens hold ID '[' NUM ']' '=' ...
HasIndexedAssignment(toks) ==
    \E i \in 1..(Len(toks) - 4) :
        /\ toks[i].type = "Identifier" /\ toks[i + 1].type = "LBracket"
        /\ toks[i + 2].type = "Number" /\ toks[i + 3].type = "RBracket"
        /\ toks[i + 4].type = "Equal"

\* n is BinaryOp("=") whose left operand is a Variable carrying an index
IsIndexedAssign(n) ==
    /\ n.kind = "BinaryOp" /\ n.op = <<"=">>
    /\ n.left.kind = "Variable" /\ n.left.index # Null

\* C5: a statement ID '[' expression ']' '=' expression ';' inside a function
\* body parses without a syntax error into BinaryOp("=") whose left operand
\* is a Variable carrying the index expression.  (Sources that name input or
\* output are left to C4.)
C5_IndexedAssignmentParses ==
    (/\ Analyzed /\ HasIndexedAssignment(tokens)
     /\ \A i \in 1..Len(tokens) : tokens[i].type \notin {"Input", "Output"})
        => /\ syntax_errors = <<>>
           /\ \E n \in Nodes(program) : IsIndexedAssign(n)

\* C6: for every program the analyzer accepts, the number of arguments of
\* each Call node equals the number of parameters in the callee's
\* declaration, wherever the callee is declared.
C6_CallsMatchArity ==
    (Analyzed /\ ~has_errors(analyzer))
        => \A c \in Nodes(program) :
              c.kind = "Call"
                  => \A d \in FunDeclarations(program, c.name) :
                        Len(c.args) = Len(d.params)

\* d, a function declaration, declares the local int name, as an array or
\* not
DeclaresLocal(d, name, array) ==
    /\ d.body.kind = "CompoundStmt"
    /\ \E i \in 1..Len(d.body.locals) :
          /\ d.body.locals[i].name = name /\ d.body.locals[i].type = W_int
          /\ (d.body.locals[i].arraySize # -1) = array

\* n, in function d of prog, is `x = e` with x a scalar int and e an
\* unindexed array or a call of a void function
AssignsNonInt(prog, d, n) ==
    /\ n.kind = "BinaryOp" /\ n.op = <<"=">>
    /\ n.left.kind = "Variable" /\ n.left.index = Null
    /\ DeclaresLocal(d, n.left.name, FALSE)
    /\ \/ /\ n.right.kind = "Variable" /\ n.right.index = Null
          /\ DeclaresLocal(d, n.right.name, TRUE)
       \/ /\ n.right.kind = "Call"
          /\ \E g \in FunDeclarations(prog, n.right.name) : g.return_type = W_void

\* C7: the analyzer reports an error for every assignment `x = e` with x a
\* scalar int when e has type INT_ARRAY (an unindexed array) or VOID (a call
\* of a void function).
C7_AssignmentNeedsInt ==
    Analyzed
        => \A i \in 1..Len(program.declarations) :
              program.declarations[i].kind = "FunDeclaration"
                  => \A n \in Nodes(program.declarations[i].body) :
                        AssignsNonInt(program, program.declarations[i], n)
                            => has_errors(analyzer)

C9_OptimizeIdempotent == opt_runs >= 2 => ir_out = ir_prev

\* where the instruction numbered line stands in L
PositionIn(L, line) == CHOOSE k \in 1..Len(L) : L[k].line_number = line

\* C10: optimize(L) is no longer than L and is an order-preserving sub-list
\* of L up to rewriting of opcode and operands: every instruction returned is
\* an instruction of L with its result, none is added or moved, and the
\* instructions kept are in the order they have in L.
C10_OptimizeKeepsOrder ==
    opt_runs >= 1
        => /\ Len(ir_out) <= Len(ir_prev)
           /\ \A a, b \in 1..Len(ir_prev) :
                 ir_prev[a].line_number = ir_prev[b].line_number => a = b
           /\ \A i \in 1..Len(ir_out) :
                 \E k \in 1..Len(ir_prev) :
                    /\ ir_prev[k].line_number = ir_out[i].line_number
                    /\ ir_prev[k].result = ir_out[i].result
           /\ \A i, j \in 1..Len(ir_out) :
                 i < j => PositionIn(ir_prev, ir_out[i].line_number)
                              < PositionIn(ir_prev, ir_out[j].line_number)

\* optimize removed an instruction, kept two or more and rewrote one of them
C10_Witness ==
    /\ opt_runs >= 1
    /\ 2 <= Len(ir_out) /\ Len(ir_out) < Len(ir_prev)
    /\ \E i \in 1..Len(ir_out) :
          ir_out[i].op # ir_prev[PositionIn(ir_prev, ir_out[i].line_number)].op


-----------------------------------------------------------------------------
\* C11: every call of generate on one generator returns the list a freshly
\* constructed generator returns for the same Program, temporary and label
\* names included, whatever the generator generated before; two calls on the
\* same Program return the same list.
C11_GenerateIndependentOfHistory ==
    \A i \in 1..Len(generated) :
       /\ generated[i].code = gen(NewIRGenerator, generated[i].program).instructions
       /\ \A j \in 1..Len(generated) :
             generated[i].program = generated[j].program
                => generated[i].code = generated[j].code

\* the names given by the two counters occur in the list
NamesTempAndLabel(code) ==
    /\ \E k \in 1..Len(code) : code[k].result = new_temp(NewIRGenerator)
    /\ \E k \in 1..Len(code) :
          code[k].op = "LABEL" /\ code[k].result = new_label(NewIRGenerator)

\* a Program generated, another one generated, the first generated again, with
\* t0 and L0 in its list
C11_Witness ==
    /\ Len(generated) = 3
    /\ generated[1].program = generated[3].program
    /\ generated[2].program # generated[1].program
    /\ NamesTempAndLabel(generated[3].code)
    /\ NamesTempAndLabel(generated[2].code)

-----------------------------------------------------------------------------
\* C12: after build_from_ir on a non-empty IR list, every block of the block
\* list holds at least one instruction.
C12_BlocksNonEmpty ==
    (pc = "done" /\ ir_in # <<>>)
        => \A b \in 1..Len(cfg.blocks) : cfg.blocks[b].instructions # <<>>

-----------------------------------------------------------------------------
\* C13: when tokenize returns, the token sequence holds exactly one Eof token,
\* which is its last element, every other token has a non-empty lexeme, and
\* for a source made only of white space and comments the sequence is [Eof].
C13_OneEofLastLexemesNonEmpty ==
    (pc = "done" /\ result = "returned") =>
        /\ tokens # <<>>
        /\ tokens[Len(tokens)].type = "Eof"
        /\ \A i \in 1..(Len(tokens) - 1) :
              tokens[i].type # "Eof" /\ tokens[i].value # <<>>
        /\ source \in BlankSources => Len(tokens) = 1

\* a source of several comments and white space was tokenized
C13_WitnessBlank ==
    /\ pc = "done" /\ result = "returned"
    /\ source = PcBlockComment \o PcLineComment \o PcLineCommentAtEnd

\* a source with comments between tokens was tokenized
C13_Witness ==
    /\ pc = "done" /\ result = "returned"
    /\ source = PcWord \o PcBlockComment \o PcOperators
    /\ Len(tokens) = 6

-----------------------------------------------------------------------------
\* C14: on a token vector that ends with Eof, every iteration of the loop of
\* parse_program moves the cursor forward, whether parse_declaration returns or
\* throws and error recovery runs, and parse_program ends, returning a Program
\* node.
C14_ParseProgramTerminates ==
    /\ [][pc = "parse_program" /\ pc' = "parse_program" => current' > current]_vars
    /\ <>(pc = "done" /\ result = "returned" /\ ast.kind = "Program")

\* parse_program returned after iterations in which parse_declaration threw
\* and iterations in which it returned
C14_Witness ==
    /\ pc = "done" /\ result = "returned"
    /\ Len(syntax_errors) >= 2
    /\ Len(ast.declarations) >= 1
    /\ tokens[Len(tokens)].type = "Eof"

-----------------------------------------------------------------------------
\* the position of the first use of a name in the uses of one run
FirstUse(uses, name) ==
    CHOOSE u \in 1..Len(uses) :
       uses[u].name = name /\ \A v \in 1..(u - 1) : uses[v].name # name

\* C15: in every run of generate_from_ir, of the first compilation of the
\* process and of the later ones, the k-th distinct name handed to
\* get_memory_location is addressed at -8*k, at its first use and at every
\* later use in the run.
C15_OffsetsPerCompilation ==
    \A r \in 1..Len(asm_uses) :
       \A u \in 1..Len(asm_uses[r]) :
          asm_uses[r][u].offset =
              -8 * Cardinality({asm_uses[r][v].name
                                  : v \in 1..FirstUse(asm_uses[r], asm_uses[r][u].name)})

-----------------------------------------------------------------------------
\* the position of the instruction of code that defines operand, 0 when none
DefinedAt(code, operand) ==
    IF \E d \in 1..Len(code) : code[d].result = operand /\ modifies_result(code[d])
    THEN CHOOSE d \in 1..Len(code) : code[d].result = operand /\ modifies_result(code[d])
    ELSE 0

\* the n PARAM instructions stand directly before CALL t, f, n at position c
ParamsBeforeCall(code, c, n) ==
    n < c /\ \A k \in 1..n : code[c - k].op = "PARAM"

\* the PARAM directly before the CALL pushes a1, the one before it a2, ...:
\* the instructions evaluating an earlier argument come before those
\* evaluating a later one
ArgumentsLeftToRight(code, c, n) ==
    \A i, j \in 1..n :
       (/\ i < j
        /\ DefinedAt(code, code[c - i].arg1) # 0
        /\ DefinedAt(code, code[c - j].arg1) # 0)
          => DefinedAt(code, code[c - i].arg1) < DefinedAt(code, code[c - j].arg1)

\* C16: in every list generate returned, a CALL t, f, n is directly preceded
\* by the n PARAM instructions of its arguments, pushed an first and a1 last,
\* after all the arguments were evaluated, a1 first and an last.
C16_ArgumentsThenParams ==
    \A r \in 1..Len(generated) :
       \A c \in 1..Len(generated[r].code) :
          generated[r].code[c].op = "CALL" =>
             \E n \in {stoi(generated[r].code[c].arg2).value} :
                /\ ParamsBeforeCall(generated[r].code, c, n)
                /\ ArgumentsLeftToRight(generated[r].code, c, n)

-----------------------------------------------------------------------------
FoldableOps ==
    {"ADD", "SUB", "MUL", "DIV", "MOD", "EQ", "NE", "LT", "LE", "GT", "GE",
     "AND", "OR"}

\* the pass named returned its list
PassReturned(name) == pc = "done" /\ pass = name /\ result = "returned"

\* C18: after constant_folding no arithmetic, comparison or logical
\* instruction is left with two literal operands, except DIV and MOD by the
\* literal 0.
C18_NoFoldableLeft ==
    PassReturned("constant_folding") =>
        \A i \in 1..Len(ir_out) :
           (/\ ir_out[i].op \in FoldableOps
            /\ is_constant(ir_out[i].arg1)
            /\ is_constant(ir_out[i].arg2))
              => /\ ir_out[i].op \in {"DIV", "MOD"}
                 /\ get_constant_value(ir_out[i].arg2).value = 0

\* between positions i and j no instruction defines one of the names
NotRedefinedBetween(L, i, j, names) ==
    \A k \in (i + 1)..(j - 1) : modifies_result(L[k]) => L[k].result \notin names

\* C19: after copy_propagation, an instruction that follows ASSIGN a, b or
\* COPY a, b (b not a literal), with no definition of a or b in between, does
\* not read a any more.
C19_CopiesPropagated ==
    PassReturned("copy_propagation") =>
        \A i, j \in 1..Len(ir_out) :
           (/\ i < j
            /\ ir_out[i].op \in {"ASSIGN", "COPY"}
            /\ ir_out[i].arg1 # <<>>
            /\ ~is_constant(ir_out[i].arg1)
            /\ ir_out[i].arg1 # ir_out[i].result
            /\ NotRedefinedBetween(ir_out, i, j, {ir_out[i].result, ir_out[i].arg1}))
              => /\ ir_out[j].arg1 # ir_out[i].result
                 /\ ir_out[j].arg2 # ir_out[i].result

\* the instructions of ir_in that are not in ir_out
Removed ==
    {i \in 1..Len(ir_in) : ~\E k \in 1..Len(ir_out) : ir_out[k].line_number = i}

LiveByFiat ==
    {"LABEL", "GOTO", "IF_FALSE", "IF_TRUE", "CALL", "RETURN", "FUNCTION_BEGIN",
     "FUNCTION_END"}

\* name is the first or the second operand of an instruction of L
IsOperandIn(L, name) == \E k \in 1..Len(L) : L[k].arg1 = name \/ L[k].arg2 = name

\* C20: an instruction dead_code_elimination removed defines a variable that
\* is an operand of no instruction of the list handed to it, and is no label,
\* branch, call, return or function marker.
C20_OnlyUnusedDefinitionsRemoved ==
    PassReturned("dead_code_elimination") =>
        \A i \in Removed :
           /\ ir_in[i].op \notin LiveByFiat
           /\ ir_in[i].result # <<>>
           /\ ~IsOperandIn(ir_in, ir_in[i].result)

\* an instruction was removed while a call, a function marker and a branch
\* whose results nobody reads were kept
C20_Witness ==
    /\ PassReturned("dead_code_elimination")
    /\ Removed # {}
    /\ \E k \in 1..Len(ir_out) :
          /\ ir_out[k].op = "CALL"
          /\ ~IsOperandIn(ir_in, ir_out[k].result)

-----------------------------------------------------------------------------
\* C17: the list optimize returns for a list of the generator, executed from
\* any valuation, returns the same value, pushes the same values with PARAM
\* and makes the same calls as the list it was given.
C17_OptimizePreservesMeaning ==
    (pc = "done" /\ opt_runs = 1) =>
        Observed(ir_out, valuation) = Observed(ir_in, valuation)

-----------------------------------------------------------------------------
\* the number of instructions in the first b blocks
RECURSIVE InstructionsUpTo(_, _)
InstructionsUpTo(blocks, b) ==
    IF b = 0 THEN 0 ELSE InstructionsUpTo(blocks, b - 1) + Len(blocks[b].instructions)

\* the positions of ir_in at which a block of the graph begins
Leaders ==
    {InstructionsUpTo(cfg.blocks, b - 1) + 1
       : b \in {k \in 1..Len(cfg.blocks) : cfg.blocks[k].instructions # <<>>}}

\* C21: after build_from_ir an instruction begins a basic block if and only
\* if it is the first one, is a LABEL, or directly follows a GOTO, IF_FALSE,
\* IF_TRUE, RETURN or FUNCTION_END.
C21_BlockLeaders ==
    pc = "done" =>
        \A i \in 1..Len(ir_in) :
           i \in Leaders <=>
              \/ i = 1
              \/ ir_in[i].op = "LABEL"
              \/ /\ i > 1
                 /\ ir_in[i - 1].op \in {"GOTO", "IF_FALSE", "IF_TRUE", "RETURN",
                                         "FUNCTION_END"}

\* the blocks that hold a RETURN
ReturnBlocks ==
    {b \in 1..Len(cfg.blocks) :
        \E k \in 1..Len(cfg.blocks[b].instructions) :
           cfg.blocks[b].instructions[k].op = "RETURN"}

\* block b is in the sequence of block pointers edges
Among(edges, b) == \E k \in 1..Len(edges) : edges[k] = b

\* C22: after build_from_ir on a list that holds a RETURN the graph has an
\* exit block, every block that holds a RETURN has it as a successor and is
\* one of its predecessors.
C22_ReturnReachesExit ==
    (pc = "done" /\ ReturnBlocks # {}) =>
        /\ cfg.exit_block # 0
        /\ \A b \in ReturnBlocks :
              /\ Among(cfg.blocks[b].successors, cfg.exit_block)
              /\ Among(cfg.blocks[cfg.exit_block].predecessors, b)


\* the blocks a walk along the successor edges reaches from the entry block
RECURSIVE ReachableFrom(_)
ReachableFrom(S) ==
    IF \A b \in S : \A k \in 1..Len(cfg.blocks[b].successors) :
           cfg.blocks[b].successors[k] \in S
    THEN S
    ELSE ReachableFrom(S \cup {c \in 1..Len(cfg.blocks) :
                                  \E b \in S : Among(cfg.blocks[b].successors, c)})

\* C23: get_topological_order returns the blocks reachable from the entry
\* block, each exactly once, with the entry block first
C23_EntryFirstEachOnce ==
    (pc = "ordered" /\ cfg.entry_block # 0) =>
        /\ topo_order # <<>>
        /\ topo_order[1] = cfg.entry_block
        /\ {topo_order[k] : k \in 1..Len(topo_order)}
              = ReachableFrom({cfg.entry_block})
        /\ \A j, k \in 1..Len(topo_order) :
              topo_order[j] = topo_order[k] => j = k


\* the spill offsets the allocator R has assigned
SpillOffsets(R) == {R.spilled_variables[t] : t \in DOMAIN R.spilled_variables}

\* C24: when allocate_register() is called with an empty free pool, the
\* register it returns was in use, a spill slot is recorded at the next
\* offset, below every offset assigned before, and the returned register is
\* then in the used set and not in the free pool
C24_SpillOnEmptyPool ==
    (/\ last_call.name = "allocate_register"
     /\ last_call.before.available_registers = <<>>) =>
        /\ last_call.returned \in last_call.before.used_registers
        /\ \E t \in DOMAIN allocator.spilled_variables :
              /\ allocator.spilled_variables[t] = last_call.before.next_spill_offset
              /\ \A o \in SpillOffsets(last_call.before) :
                    allocator.spilled_variables[t] < o
        /\ allocator.next_spill_offset < last_call.before.next_spill_offset
        /\ last_call.returned \in allocator.used_registers
        /\ ~Among(allocator.available_registers, last_call.returned)

\* C25: no register has two owners: the map from temporaries to registers
\* is injective, every register bound to a temporary is in the used set, and
\* the register an allocation has just returned is not in the free queue
C25_NoSharedRegister ==
    /\ \A t, u \in DOMAIN allocator.temp_to_register :
          allocator.temp_to_register[t] = allocator.temp_to_register[u] => t = u
    /\ \A t \in DOMAIN allocator.temp_to_register :
          allocator.temp_to_register[t] \in allocator.used_registers
    /\ last_call.name \in {"allocate_register", "allocate_register(temp)"} =>
          ~Among(allocator.available_registers, last_call.returned)


\* C28: neither operand register of a translated DIV or MOD is rdx or rax,
\* the registers the set-up of idiv writes
C28_DivisionOperandsSafe ==
    \A k \in 1..Len(emitted) :
       emitted[k].op \in {"DIV", "MOD"} =>
          /\ emitted[k].regs[1] \notin {"rdx", "rax"}
          /\ emitted[k].regs[2] \notin {"rdx", "rax"}


\* the scopes of the chain that bind name
Binding(scopes, name) == {l \in 1..Len(scopes) : name \in DOMAIN scopes[l]}

\* C26: declare_symbol returns false, and changes nothing, exactly when the
\* current scope already binds the name, whatever the ancestor scopes bind;
\* when it returns true the current scope binds the name to the new symbol,
\* and lookup_symbol returns the binding of the innermost scope that has one
C26_DeclareFailsIffBoundInCurrentScope ==
    /\ last_call.name = "declare_symbol" =>
          /\ last_call.returned = FALSE <=>
                last_call.arg.name \in DOMAIN last_call.before[Len(last_call.before)]
          /\ last_call.returned = FALSE => symtab = last_call.before
          /\ last_call.returned = TRUE =>
                /\ Len(symtab) = Len(last_call.before)
                /\ symtab[Len(symtab)][last_call.arg.name] = last_call.arg
                /\ \A l \in 1..(Len(symtab) - 1) : symtab[l] = last_call.before[l]
                /\ \A n \in DOMAIN last_call.before[Len(symtab)] :
                      symtab[Len(symtab)][n] = last_call.before[Len(symtab)][n]
    /\ last_call.name = "lookup_symbol" =>
          /\ Binding(symtab, last_call.arg) = {} => last_call.returned = 0
          /\ Binding(symtab, last_call.arg) # {} =>
                /\ last_call.returned \in Binding(symtab, last_call.arg)
                /\ \A l \in Binding(symtab, last_call.arg) : l <= last_call.returned

\* a declaration has succeeded in a scope one of whose ancestors binds the
\* name to another symbol
C26_Witness ==
    /\ last_call.name = "declare_symbol"
    /\ last_call.returned = TRUE
    /\ \E l \in 1..(Len(symtab) - 1) :
          /\ last_call.arg.name \in DOMAIN symtab[l]
          /\ symtab[l][last_call.arg.name] # last_call.arg


\* C27: a program the analyzer has accepted is accepted again, without
\* errors, each time the same analyzer is given it, with or without
\* reset_analysis in between
C27_SameVerdictAgain ==
    (last_call.name = "analyze" /\ last_call.first = TRUE) =>
        /\ last_call.returned = TRUE
        /\ analyzer.errors = <<>>


\* C29: every offset get_memory_location produces lies in the 64 bytes the
\* prologue reserves, between -64 and -8
C29_OffsetsInFrame ==
    \A r \in 1..Len(asm_uses) :
       \A u \in 1..Len(asm_uses[r]) :
          asm_uses[r][u].offset \in -64..-8


\* C30: no instruction of the list generated for an accepted program goes
\* to the branch "Unhandled IR instruction", and the translation of every
\* instruction that computes a result stores to the slot of that result
C30_EveryOpcodeTranslated ==
    \A k \in 1..Len(emitted) :
       /\ emitted[k].by # "default"
       /\ (ir_code[k].result # <<>>
             /\ ir_code[k].op \notin {"LABEL", "GOTO", "IF_FALSE", "IF_TRUE",
                                      "FUNCTION_BEGIN", "FUNCTION_END",
                                      "ARRAY_ASSIGN"})
            => emitted[k].stores

=============================================================================
